---- MODULE Spec2Model ----
(***************************************************************************)
(* Model of phylorank/outliers.py (class Outliers): outgroup rerooting,    *)
(* multi-rooting aggregation of relative evolutionary divergence (RED),    *)
(* consensus rescaling and the rank-relative outlier tables.               *)
(*                                                                         *)
(* Numbers.  RED values are fixed-point integers, 1.0 = One = 1000.  Edge  *)
(* lengths are integers in quarter units (an input length is a multiple of *)
(* 4), so that the two halvings of root_with_outgroup are exact.  A value  *)
(* that may be absent or not-a-number is a record: None, Num(x) or NaN.    *)
(*                                                                         *)
(* Names.  A taxon name is a sequence of tokens (<<"p__", "A">>), so that  *)
(* Python's substring test and str.replace / str.lower act on something.   *)
(***************************************************************************)
EXTENDS Integers, Sequences, FiniteSets, TLC

(***************************************************************************)
(*                      Optional values and floats                         *)
(***************************************************************************)
None == [k |-> "none"]
NaN == [k |-> "nan"]
Num(x) == [k |-> "num", v |-> x]
IsNum(f) == f.k = "num"

NoNode == 0 - 1

(***************************************************************************)
(*                          Sequence helpers                               *)
(***************************************************************************)
Range(s) == {s[i] : i \in 1..Len(s)}

RECURSIVE Concat(_)
Concat(ss) == IF ss = <<>> THEN <<>> ELSE Head(ss) \o Concat(Tail(ss))

RemoveElem(s, x) == SelectSeq(s, LAMBDA y : y # x)

ReplaceElem(s, x, y) == [i \in 1..Len(s) |-> IF s[i] = x THEN y ELSE s[i]]

RECURSIVE SumSeq(_)
SumSeq(s) == IF s = <<>> THEN 0 ELSE Head(s) + SumSeq(Tail(s))

RECURSIVE InsertSorted(_, _)
InsertSorted(s, x) ==
    IF s = <<>> THEN <<x>>
    ELSE IF x <= Head(s) THEN <<x>> \o s
    ELSE <<Head(s)>> \o InsertSorted(Tail(s), x)

RECURSIVE SortAsc(_)
SortAsc(s) == IF s = <<>> THEN <<>> ELSE InsertSorted(SortAsc(Tail(s)), Head(s))

RECURSIVE SetToSeq(_)
SetToSeq(S) ==
    IF S = {} THEN <<>>
    ELSE LET x == CHOOSE y \in S : TRUE IN <<x>> \o SetToSeq(S \ {x})

Perms(S) == {s \in [1..Cardinality(S) -> S] : Range(s) = S}

(***************************************************************************)
(*                     Tree Model (dendropy.Tree)                          *)
(*  t.root, t.nodes, and per node: parent, kids (ordered), len (edge       *)
(*  length), label (node label), taxon (leaf taxon label), id (the         *)
(*  attribute set by median_rd_over_phyla), rel_dist (the decoration).     *)
(***************************************************************************)
IsLeaf(t, n) == t.kids[n] = <<>>

RECURSIVE Preorder(_, _)
Preorder(t, n) ==
    <<n>> \o Concat([i \in 1..Len(t.kids[n]) |-> Preorder(t, t.kids[n][i])])

RECURSIVE Postorder(_, _)
Postorder(t, n) ==
    Concat([i \in 1..Len(t.kids[n]) |-> Postorder(t, t.kids[n][i])]) \o <<n>>

LeafSeq(t, n) == SelectSeq(Preorder(t, n), LAMBDA x : IsLeaf(t, x))

LeafSet(t, n) == Range(LeafSeq(t, n))

SubtreeNodes(t, n) == Range(Preorder(t, n))

Depth(t, n) == Cardinality({a \in t.nodes : n \in SubtreeNodes(t, a)})

\* Variant: the taxa are not passed on, the MRCA is the one of all leaves.
MrcaOfAllLeaves(t, taxa) == t.root

\* Tree.mrca(taxa=...): the deepest node whose subtree holds every leaf with
\* one of the given taxa, under the current rooting.
Mrca(t, taxa) ==
    LET targets == {n \in t.nodes : IsLeaf(t, n) /\ t.taxon[n] \in taxa}
        holders == {a \in t.nodes : targets \subseteq SubtreeNodes(t, a)}
    IN  CHOOSE a \in holders : \A b \in holders : Depth(t, b) <= Depth(t, a)

\* Merging of edge lengths when a node with a single child is removed.
MergeLen(ndLen, childLen) ==
    IF ~IsNum(ndLen) THEN childLen
    ELSE IF ~IsNum(childLen) THEN ndLen
    ELSE Num(ndLen.v + childLen.v)

\* Removes node nd, which has exactly one child, and puts the child in its
\* place.
RemoveUnifurcation(t, nd) ==
    LET c == t.kids[nd][1]
        p == t.parent[nd]
        keep == t.nodes \ {nd}
    IN  [root |-> IF p = NoNode THEN c ELSE t.root,
         nodes |-> keep,
         parent |-> [n \in keep |-> IF n = c THEN p ELSE t.parent[n]],
         kids |-> [n \in keep |->
                     IF n = p THEN ReplaceElem(t.kids[p], nd, c) ELSE t.kids[n]],
         len |-> [n \in keep |->
                     IF n = c THEN (IF p = NoNode THEN None
                                    ELSE MergeLen(t.len[nd], t.len[c]))
                     ELSE t.len[n]],
         label |-> [n \in keep |-> t.label[n]],
         taxon |-> [n \in keep |-> t.taxon[n]],
         id |-> [n \in keep |-> t.id[n]],
         rel_dist |-> [n \in keep |-> t.rel_dist[n]]]

\* Tree.suppress_unifurcations(): post-order removal of every node that has
\* exactly one child.
RECURSIVE SuppressUnifurcations(_)
SuppressUnifurcations(t) ==
    LET post == Postorder(t, t.root)
        uni == SelectSeq(post, LAMBDA n : Len(t.kids[n]) = 1)
    IN  IF uni = <<>> THEN t
        ELSE SuppressUnifurcations(RemoveUnifurcation(t, uni[1]))

\* Variant: the new seed keeps the link to its former parent.
RECURSIVE ReseedAtKeepsParent(_, _)
ReseedAtKeepsParent(t, s) ==
    IF t.parent[s] = NoNode THEN t
    ELSE LET p == t.parent[s]
             u == ReseedAtKeepsParent(t, p)
         IN  [u EXCEPT !.root = s,
                       !.parent = [u.parent EXCEPT ![p] = s],
                       !.kids = [u.kids EXCEPT ![p] = RemoveElem(u.kids[p], s),
                                               ![s] = Append(u.kids[s], p)],
                       !.len = [u.len EXCEPT ![p] = u.len[s], ![s] = None]]

\* Tree.reseed_at(s) without the final suppression: the parent links on the
\* path from the old root to s are reversed, top first; each reversed node
\* is appended to its new parent's children and takes over the edge length.
RECURSIVE ReseedAt(_, _)
ReseedAt(t, s) ==
    IF t.parent[s] = NoNode THEN t
    ELSE LET p == t.parent[s]
             u == ReseedAt(t, p)
         IN  [u EXCEPT !.root = s,
                       !.parent = [u.parent EXCEPT ![p] = s, ![s] = NoNode],
                       !.kids = [u.kids EXCEPT ![p] = RemoveElem(u.kids[p], s),
                                               ![s] = Append(u.kids[s], p)],
                       !.len = [u.len EXCEPT ![p] = u.len[s], ![s] = None]]

FreshNode(t) == 1 + CHOOSE m \in t.nodes : \A n \in t.nodes : n <= m

\* Variant: the tree is left as it is.
RerootAtEdgeSkipped(t, n, length1, length2) == t

\* Tree.reroot_at_edge(n.edge, length1, length2): a new node is put on the
\* edge above n, the tree is reseeded at it and unifurcations are removed.
\* The new root has the children <<n, former parent of n>>.
RerootAtEdge(t, n, length1, length2) ==
    IF t.parent[n] = NoNode THEN t
    ELSE LET tail == t.parent[n]
             m == FreshNode(t)
             all == t.nodes \cup {m}
             split ==
               [root |-> t.root,
                nodes |-> all,
                parent |-> [x \in all |-> IF x = m THEN tail
                                          ELSE IF x = n THEN m ELSE t.parent[x]],
                kids |-> [x \in all |->
                            IF x = m THEN <<n>>
                            ELSE IF x = tail THEN Append(RemoveElem(t.kids[tail], n), m)
                            ELSE t.kids[x]],
                len |-> [x \in all |-> IF x = m THEN length1
                                       ELSE IF x = n THEN length2 ELSE t.len[x]],
                label |-> [x \in all |-> IF x = m THEN <<>> ELSE t.label[x]],
                taxon |-> [x \in all |-> IF x = m THEN <<>> ELSE t.taxon[x]],
                id |-> [x \in all |-> IF x = m THEN None ELSE t.id[x]],
                rel_dist |-> [x \in all |-> IF x = m THEN None ELSE t.rel_dist[x]]]
         IN  SuppressUnifurcations(ReseedAt(split, m))

\* Variant: the length is not halved.
HalfIsWhole(l) == Num(l.v)

\* 0.5 * edge_length
Half(l) == Num(l.v \div 2)

(***************************************************************************)
(*        Names, labels and taxonomy (phylorank.newick, Taxonomy)          *)
(***************************************************************************)
Domain == <<"d__", "Bacteria">>
PhylumA == <<"p__", "A">>
PhylumB == <<"p__", "B">>
PhylumAB == <<"p__", "A", "B">>
ClassX == <<"c__", "X">>
ClassY == <<"c__", "Y">>
OrderY == <<"o__", "Y">>

\* Taxonomy.rank_prefixes / Taxonomy.rank_index
RankPrefixes == <<"d__", "p__", "c__", "o__">>
RankIndex(name) == (CHOOSE i \in 1..Len(RankPrefixes) : RankPrefixes[i] = name[1]) - 1

\* Python's `a in b` for strings.
IsSubstring(a, b) ==
    \E i \in 1..(Len(b) + 1) :
        i + Len(a) - 1 <= Len(b) /\ SubSeq(b, i, i + Len(a) - 1) = a

\* The taxon name of a node label: the names of a compound label are joined
\* by "; "; a node without a label has no taxon name (the empty sequence).
RECURSIVE JoinNames(_)
JoinNames(names) ==
    IF names = <<>> THEN <<>>
    ELSE IF Len(names) = 1 THEN names[1]
    ELSE names[1] \o <<";", " ">> \o JoinNames(Tail(names))

ParseLabel(label) == JoinNames(label)

\* str.lower() on one token.
Lower(tok) ==
    CASE tok = "A" -> "a"
      [] tok = "B" -> "b"
      [] tok = "C" -> "c"
      [] OTHER -> tok

\* p.replace('p__', '').replace(' ', '_').lower()
PhylumKey(p) ==
    LET kept == SelectSeq(p, LAMBDA tok : tok # "p__")
    IN  [i \in 1..Len(kept) |-> IF kept[i] = " " THEN "_" ELSE Lower(kept[i])]

\* The ancestors of n, the root first, n itself last.
RECURSIVE PathFromRoot(_, _)
PathFromRoot(t, n) ==
    IF t.parent[n] = NoNode THEN <<n>> ELSE Append(PathFromRoot(t, t.parent[n]), n)

\* Taxonomy().read_from_tree(tree): each leaf's lineage is the sequence of
\* names on the labels of its ancestors.
ReadFromTree(t) ==
    LET leaves == {n \in t.nodes : IsLeaf(t, n)}
        lineage(n) == LET path == PathFromRoot(t, n)
                      IN  Concat([i \in 1..Len(path) |-> t.label[path[i]]])
    IN  [x \in {t.taxon[n] : n \in leaves} |->
            lineage(CHOOSE n \in leaves : t.taxon[n] = x)]

\* Taxonomy().children(p, taxonomy): every name below p in a lineage that
\* holds p.
TaxonomyChildren(p, taxonomy) ==
    UNION {LET taxa == taxonomy[g]
               at == CHOOSE i \in 1..Len(taxa) : taxa[i] = p
           IN  {taxa[j] : j \in (at + 1)..Len(taxa)}
           : g \in {h \in DOMAIN taxonomy : p \in Range(taxonomy[h])}}

\* get_phyla_lineages(tree): the phylum names that label internal nodes.
PhylaInTree(t) ==
    {nm \in UNION {Range(t.label[n]) : n \in {x \in t.nodes : ~IsLeaf(t, x)}} :
        nm[1] = "p__"}

(***************************************************************************)
(*            Divergence Calculator (phylorank.rel_dist)                   *)
(***************************************************************************)
\* The classification bounds 0.1 and 0.2 in fixed point; 1.0 is One.
OkBound == 100
VeryBound == 200
One == 10 * OkBound

\* Sums of edge lengths from n down to each leaf of its subtree.
RECURSIVE DistToLeaves(_, _)
DistToLeaves(t, n) ==
    IF IsLeaf(t, n) THEN <<0>>
    ELSE Concat([i \in 1..Len(t.kids[n]) |->
                   LET c == t.kids[n][i]
                       below == DistToLeaves(t, c)
                   IN  [j \in 1..Len(below) |-> below[j] + t.len[c].v]])

\* The decoration cannot be computed when an edge has no length or when an
\* edge and the average leaf distance below it are both zero.
RedComputable(t) ==
    \A n \in t.nodes \ {t.root} :
        /\ IsNum(t.len[n])
        /\ (t.len[n].v > 0 \/ SumSeq(DistToLeaves(t, n)) > 0)

\* Variant: the step is not scaled by what is left up to 1.
RECURSIVE RedOfUnscaled(_, _)
RedOfUnscaled(t, n) ==
    IF n = t.root THEN 0
    ELSE LET x == RedOfUnscaled(t, t.parent[n])
             dists == DistToLeaves(t, n)
             k == Len(dists)
             a == t.len[n].v
         IN  x + (a * k * One) \div (a * k + SumSeq(dists))

\* RED(root) = 0; RED(n) = RED(parent) + a / (a + b) * (1 - RED(parent)),
\* a the edge length of n and b the average distance from n to its leaves.
RECURSIVE RedOf(_, _)
RedOf(t, n) ==
    IF n = t.root THEN 0
    ELSE LET x == RedOf(t, t.parent[n])
             dists == DistToLeaves(t, n)
             k == Len(dists)
             a == t.len[n].v
         IN  x + (a * k * (One - x)) \div (a * k + SumSeq(dists))

\* RelativeDistance.decorate_rel_dist(tree)
DecorateRelDist(t) == [t EXCEPT !.rel_dist = [n \in t.nodes |-> Num(RedOf(t, n))]]

\* RelativeDistance.rel_dist_to_named_clades(tree): rank index -> clade name
\* -> RED, for the internal nodes that carry a single (non-compound) name.
RelDistToNamedClades(t) ==
    LET named == {n \in t.nodes : ~IsLeaf(t, n) /\ Len(t.label[n]) = 1}
        ranks == {RankIndex(t.label[n][1]) : n \in named}
        at(r) == {n \in named : RankIndex(t.label[n][1]) = r}
    IN  [r \in ranks |->
            [nm \in {t.label[n][1] : n \in at(r)} |->
                RedOf(t, CHOOSE n \in at(r) : t.label[n][1] = nm)]]

(***************************************************************************)
(*                            Input trees                                  *)
(*  A tree is written as the sequence of its nodes in pre-order; node i of *)
(*  the sequence is object i - 1.  Lengths are in quarter units.           *)
(***************************************************************************)
Inner(p, l, lab) == [p |-> p, l |-> l, lab |-> lab, tx |-> <<>>]
Leaf(p, l, tx) == [p |-> p, l |-> l, lab |-> <<>>, tx |-> <<tx>>]

MkTree(spec) ==
    LET nodes == 0..(Len(spec) - 1)
    IN  [root |-> 0,
         nodes |-> nodes,
         parent |-> [n \in nodes |-> spec[n + 1].p],
         kids |-> [n \in nodes |->
                     SelectSeq([i \in 1..Len(spec) |-> i - 1],
                               LAMBDA c : spec[c + 1].p = n)],
         len |-> [n \in nodes |-> spec[n + 1].l],
         label |-> [n \in nodes |-> spec[n + 1].lab],
         taxon |-> [n \in nodes |-> spec[n + 1].tx],
         id |-> [n \in nodes |-> None],
         rel_dist |-> [n \in nodes |-> None]]

\* (((a1:1,a2:2)c__X:1,a3:3)p__A:2,(b1:1,b2:1)p__B:1,(c1:1,c2:2)p__AB:2)d__Bacteria;
TreeThreePhyla ==
    MkTree(<<Inner(NoNode, None, <<Domain>>),
             Inner(0, Num(8), <<PhylumA>>),
             Inner(1, Num(4), <<ClassX>>),
             Leaf(2, Num(4), "a1"), Leaf(2, Num(8), "a2"),
             Leaf(1, Num(12), "a3"),
             Inner(0, Num(4), <<PhylumB>>),
             Leaf(6, Num(4), "b1"), Leaf(6, Num(4), "b2"),
             Inner(0, Num(8), <<PhylumAB>>),
             Leaf(9, Num(4), "c1"), Leaf(9, Num(8), "c2")>>)

\* The same tree with no length on the edge above p__B.
TreeMissingLength ==
    MkTree(<<Inner(NoNode, None, <<Domain>>),
             Inner(0, Num(8), <<PhylumA>>),
             Inner(1, Num(4), <<ClassX>>),
             Leaf(2, Num(4), "a1"), Leaf(2, Num(8), "a2"),
             Leaf(1, Num(12), "a3"),
             Inner(0, None, <<PhylumB>>),
             Leaf(6, Num(4), "b1"), Leaf(6, Num(4), "b2"),
             Inner(0, Num(8), <<PhylumAB>>),
             Leaf(9, Num(4), "c1"), Leaf(9, Num(8), "c2")>>)

\* ((a1:1,a2:1)p__A:1,((b1:1,b2:2)c__Y:1,b3:2)p__B:1)d__Bacteria;
TreeTwoPhyla ==
    MkTree(<<Inner(NoNode, None, <<Domain>>),
             Inner(0, Num(4), <<PhylumA>>),
             Leaf(1, Num(4), "a1"), Leaf(1, Num(4), "a2"),
             Inner(0, Num(4), <<PhylumB>>),
             Inner(4, Num(4), <<ClassY>>),
             Leaf(5, Num(4), "b1"), Leaf(5, Num(8), "b2"),
             Leaf(4, Num(8), "b3")>>)

\* A taxonomy in which a3 belongs to p__B: p__B is not monophyletic.
TaxonomySplitB ==
    [x \in {<<"a1">>, <<"a2">>, <<"a3">>, <<"b1">>, <<"b2">>, <<"c1">>, <<"c2">>} |->
        CASE x \in {<<"a1">>, <<"a2">>} -> <<Domain, PhylumA, ClassX>>
          [] x \in {<<"a3">>, <<"b1">>, <<"b2">>} -> <<Domain, PhylumB>>
          [] OTHER -> <<Domain, PhylumAB>>]

\* A taxonomy that does not know the genomes c1 and c2: p__AB has no genome.
TaxonomyWithoutAB ==
    [x \in {<<"a1">>, <<"a2">>, <<"a3">>, <<"b1">>, <<"b2">>} |->
        CASE x \in {<<"a1">>, <<"a2">>} -> <<Domain, PhylumA, ClassX>>
          [] x = <<"a3">> -> <<Domain, PhylumA>>
          [] OTHER -> <<Domain, PhylumB>>]

\* A taxonomy in which every genome belongs to p__A: a rooting on p__A has
\* no ingroup leaf.
TaxonomyAllA ==
    [x \in {<<"a1">>, <<"a2">>, <<"a3">>, <<"b1">>, <<"b2">>, <<"c1">>, <<"c2">>} |->
        <<Domain, PhylumA>>]

\* ((a1:1,(b1:1,b2:2)p__B:1)p__A:1,c1:2,c2:1)d__Bacteria;  the label p__B
\* sits inside the clade labelled p__A.
TreeNestedPhyla ==
    MkTree(<<Inner(NoNode, None, <<Domain>>),
             Inner(0, Num(4), <<PhylumA>>),
             Leaf(1, Num(4), "a1"),
             Inner(1, Num(4), <<PhylumB>>),
             Leaf(3, Num(4), "b1"), Leaf(3, Num(8), "b2"),
             Leaf(0, Num(8), "c1"), Leaf(0, Num(4), "c2")>>)

\* ((a1:1,a2:1)p__A:1,(c1:1,c2:2)p__AB:1)d__Bacteria;  the name of one
\* phylum is the beginning of the name of the other.
TreeSubstringPhyla ==
    MkTree(<<Inner(NoNode, None, <<Domain>>),
             Inner(0, Num(4), <<PhylumA>>),
             Leaf(1, Num(4), "a1"), Leaf(1, Num(4), "a2"),
             Inner(0, Num(4), <<PhylumAB>>),
             Leaf(4, Num(4), "c1"), Leaf(4, Num(8), "c2")>>)

\* The three-phyla tree with no length on the edge above p__A.
TreeMissingLengthSplit ==
    MkTree(<<Inner(NoNode, None, <<Domain>>),
             Inner(0, None, <<PhylumA>>),
             Inner(1, Num(4), <<ClassX>>),
             Leaf(2, Num(4), "a1"), Leaf(2, Num(8), "a2"),
             Leaf(1, Num(12), "a3"),
             Inner(0, Num(4), <<PhylumB>>),
             Leaf(6, Num(4), "b1"), Leaf(6, Num(4), "b2"),
             Inner(0, Num(8), <<PhylumAB>>),
             Leaf(9, Num(4), "c1"), Leaf(9, Num(8), "c2")>>)

\* A taxonomy in which a2 belongs to p__B: p__A is not monophyletic.
TaxonomySplitA ==
    [x \in {<<"a1">>, <<"a2">>, <<"a3">>, <<"b1">>, <<"b2">>, <<"c1">>, <<"c2">>} |->
        CASE x \in {<<"a1">>, <<"a3">>} -> <<Domain, PhylumA>>
          [] x \in {<<"a2">>, <<"b1">>, <<"b2">>} -> <<Domain, PhylumB>>
          [] OTHER -> <<Domain, PhylumAB>>]

\* ((((a1:1,a2:1)p__A:1,(b1:1,b2:1)p__B:1):1,x1:1):1,y1:1)d__Bacteria;  both
\* phyla lie below two unnamed nodes, so every rooting turns the edge
\* between these two around.
TreeDeepPhyla ==
    MkTree(<<Inner(NoNode, None, <<Domain>>),
             Inner(0, Num(4), <<>>),
             Inner(1, Num(4), <<>>),
             Inner(2, Num(4), <<PhylumA>>),
             Leaf(3, Num(4), "a1"), Leaf(3, Num(4), "a2"),
             Inner(2, Num(4), <<PhylumB>>),
             Leaf(6, Num(4), "b1"), Leaf(6, Num(4), "b2"),
             Leaf(1, Num(4), "x1"),
             Leaf(0, Num(4), "y1")>>)

\* (((a1:1,a2:2)c__X:1,a3:3)p__A:2,((b1:1,b2:1)o__Y:1,b3:2)p__B:1)d__Bacteria;
\* the only class lies in p__A, the only order in p__B.
TreeClassGap ==
    MkTree(<<Inner(NoNode, None, <<Domain>>),
             Inner(0, Num(8), <<PhylumA>>),
             Inner(1, Num(4), <<ClassX>>),
             Leaf(2, Num(4), "a1"), Leaf(2, Num(8), "a2"),
             Leaf(1, Num(12), "a3"),
             Inner(0, Num(4), <<PhylumB>>),
             Inner(6, Num(4), <<OrderY>>),
             Leaf(7, Num(4), "b1"), Leaf(7, Num(4), "b2"),
             Leaf(6, Num(8), "b3")>>)

InputTree(name) ==
    CASE name = "three_phyla" -> TreeThreePhyla
      [] name = "missing_length" -> TreeMissingLength
      [] name = "two_phyla" -> TreeTwoPhyla
      [] name = "nested_phyla" -> TreeNestedPhyla
      [] name = "substring_phyla" -> TreeSubstringPhyla
      [] name = "missing_length_split" -> TreeMissingLengthSplit
      [] name = "deep_phyla" -> TreeDeepPhyla
      [] name = "class_gap" -> TreeClassGap

InputNames ==
    {"three_phyla", "missing_length", "two_phyla", "nested_phyla",
     "substring_phyla", "missing_length_split", "deep_phyla", "class_gap"}

\* The taxonomies a caller of median_rd_over_phyla may pass for a tree; None
\* is the default (the taxonomy is read from the tree).
TaxonomyArgs(name) ==
    CASE name = "three_phyla" ->
            {None, Num(TaxonomySplitB), Num(TaxonomyWithoutAB), Num(TaxonomyAllA)}
      [] name = "missing_length_split" -> {Num(TaxonomySplitA)}
      [] OTHER -> {None}

\* Named clades of a tree below the domain rank.
NamedClades(t) == {nm \in UNION {Range(t.label[n]) : n \in t.nodes} : nm[1] # "d__"}

(***************************************************************************)
(*                          Program state                                  *)
(***************************************************************************)
VARIABLES
    input,            \* name of the input tree
    heap,             \* the tree objects: heap.tree (run's tree), heap.clone
    taxonomy_arg,     \* taxonomy parameter of median_rd_over_phyla
    taxa_for_dist_inference,
    pc,               \* position in run / median_rd_over_phyla / root_with_outgroup
    exit_status,      \* "running", "exit(0)", "exit(-1)", an exception name, "returned"
    taxonomy,         \* the taxonomy in use
    phyla,            \* candidate phyla in processing order
    pi,               \* index into phyla of the phylum being processed
    new_tree,         \* root_with_outgroup: reference to the working tree
    outgroup_in_tree, \* root_with_outgroup: taxa of the outgroup leaves
    ingroup_in_tree,  \* root_with_outgroup: ingroup leaf nodes
    mrca,             \* root_with_outgroup: MRCA of the outgroup
    leaves_in_mrca,
    trials,           \* iterations of the trial-reroot loop so far
    log,              \* messages logged
    phylum_rel_dists, \* sequence of <<phylum key, rank -> clade -> RED>>
    rel_node_dists,   \* node id -> sequence of RED observations
    files             \* output files written: name -> rows

vars == <<input, heap, taxonomy_arg, taxa_for_dist_inference, pc, exit_status,
          taxonomy, phyla, pi, new_tree, outgroup_in_tree, ingroup_in_tree, mrca,
          leaves_in_mrca, trials, log, phylum_rel_dists, rel_node_dists, files>>

rootVars == <<new_tree, outgroup_in_tree, ingroup_in_tree, mrca, leaves_in_mrca, trials>>

MaxTrials == 2

Init ==
    /\ input \in InputNames
    /\ heap = [tree |-> InputTree(input), clone |-> InputTree(input)]
    /\ taxonomy_arg \in TaxonomyArgs(input)
    /\ taxa_for_dist_inference \in SUBSET NamedClades(InputTree(input))
    /\ pc = "median_rd_over_phyla"
    /\ exit_status = "running"
    /\ taxonomy = None
    /\ phyla = <<>>
    /\ pi = 0
    /\ new_tree = "tree"
    /\ outgroup_in_tree = {}
    /\ ingroup_in_tree = {}
    /\ mrca = NoNode
    /\ leaves_in_mrca = 0
    /\ trials = 0
    /\ log = {}
    /\ phylum_rel_dists = <<>>
    /\ rel_node_dists = <<>>
    /\ files = <<>>

\* Ends the program with the given status.
Halt(status) ==
    /\ pc' = "halted"
    /\ exit_status' = status

(***************************************************************************)
(*              median_rd_over_phyla, lines 725-741                        *)
(***************************************************************************)
\* Variant: the id is the depth of the node, shared by the nodes of a level.
AssignIdsByDepth(t) ==
    [t EXCEPT !.id = [n \in t.nodes |-> Num(Depth(t, n))]]

\* for i, n in enumerate(tree.preorder_node_iter()): n.id = i
AssignIds(t) ==
    LET pre == Preorder(t, t.root)
    IN  [t EXCEPT !.id = [n \in t.nodes |->
                            Num((CHOOSE i \in 1..Len(pre) : pre[i] = n) - 1)]]

\* Variant: the guard lets a single phylum through.
TooFewPhylaOffByOne(ps) == Len(ps) < 1

\* len(phyla) < 2
TooFewPhyla(ps) == Len(ps) < 2

MedianBegin ==
    /\ pc = "median_rd_over_phyla"
    /\ \E all_phyla \in Perms(PhylaInTree(heap.tree)) :
         LET ps == SelectSeq(all_phyla, LAMBDA p : p \in taxa_for_dist_inference)
         IN  /\ taxonomy' = IF taxonomy_arg = None THEN ReadFromTree(heap.tree)
                            ELSE taxonomy_arg.v
             /\ phyla' = ps
             /\ IF TooFewPhyla(ps)
                THEN /\ log' = log \cup {"Rescaling requires at least 2 valid phyla."}
                     /\ Halt("exit(-1)")
                     /\ UNCHANGED <<heap, pi, rel_node_dists>>
                ELSE /\ heap' = [heap EXCEPT !.tree = AssignIds(heap.tree)]
                     /\ rel_node_dists' = [i \in 0..(Cardinality(heap.tree.nodes) - 1) |-> <<>>]
                     /\ pi' = 1
                     /\ pc' = "root_with_outgroup"
                     /\ UNCHANGED <<exit_status, log>>
    /\ UNCHANGED <<input, taxonomy_arg, taxa_for_dist_inference, rootVars,
                   phylum_rel_dists, files>>

(***************************************************************************)
(*                 root_with_outgroup, lines 93-153                        *)
(***************************************************************************)
\* Variant: no copy is made, the working tree is the input tree itself.
CloneTreeAlias(ref) == ref

\* input_tree.clone(): a new tree object.
CloneTree(ref) == "clone"

\* genomes whose taxonomy holds outgroup_taxa (lines 95-98)
Outgroup(tax, outgroup_taxa) == {g \in DOMAIN tax : outgroup_taxa \in Range(tax[g])}

\* Variant: every leaf is taken as an ingroup leaf.
IngroupLeavesAll(t, outgroup) == {n \in t.nodes : IsLeaf(t, n)}

\* lines 103-107: the leaves whose taxon label is not in the outgroup.
IngroupLeaves(t, outgroup) ==
    {n \in t.nodes : IsLeaf(t, n) /\ t.taxon[n] \notin outgroup}

\* lines 93-113: clone, partition the leaves, stop without an outgroup.
RootBegin ==
    /\ pc = "root_with_outgroup"
    /\ pi <= Len(phyla)
    /\ LET ref == CloneTree("tree")
           t == heap.tree
           outgroup == Outgroup(taxonomy, phyla[pi])
           leaves == {n \in t.nodes : IsLeaf(t, n)}
           og == {t.taxon[n] : n \in {x \in leaves : t.taxon[x] \in outgroup}}
       IN  /\ new_tree' = ref
           /\ heap' = [heap EXCEPT ![ref] = t]
           /\ outgroup_in_tree' = og
           /\ ingroup_in_tree' = IngroupLeaves(t, outgroup)
           /\ IF og = {}
              THEN /\ log' = log \cup {"No outgroup taxa identified in the tree.",
                                       "Tree was not rerooted."}
                   /\ Halt("exit(0)")
              ELSE /\ pc' = "trial_reroot"
                   /\ UNCHANGED <<exit_status, log>>
    /\ mrca' = NoNode
    /\ leaves_in_mrca' = 0
    /\ trials' = 0
    /\ UNCHANGED <<input, taxonomy_arg, taxa_for_dist_inference, taxonomy, phyla, pi,
                   phylum_rel_dists, rel_node_dists, files>>

LeavesInTree(t) == Cardinality(LeafSet(t, t.root))

\* lines 124-133: one iteration of the loop, on a random ingroup leaf.
TrialReroot ==
    /\ pc = "trial_reroot"
    /\ trials < MaxTrials
    /\ IF ingroup_in_tree = {}
       THEN /\ Halt("ValueError")
            /\ UNCHANGED <<heap, mrca, leaves_in_mrca, trials>>
       ELSE \E rnd_ingroup_leaf \in ingroup_in_tree :
              LET t == heap[new_tree]
                  l == t.len[rnd_ingroup_leaf]
              IN  IF ~IsNum(l)
                  THEN /\ Halt("TypeError")
                       /\ UNCHANGED <<heap, mrca, leaves_in_mrca, trials>>
                  ELSE LET u == RerootAtEdge(t, rnd_ingroup_leaf, Half(l), Half(l))
                           m == Mrca(u, outgroup_in_tree)
                           k == Cardinality(LeafSet(u, m))
                       IN  /\ heap' = [heap EXCEPT ![new_tree] = u]
                           /\ mrca' = m
                           /\ leaves_in_mrca' = k
                           /\ trials' = trials + 1
                           /\ pc' = IF k # LeavesInTree(t) THEN "rooting" ELSE "trial_reroot"
                           /\ UNCHANGED exit_status
    /\ UNCHANGED <<input, taxonomy_arg, taxa_for_dist_inference, taxonomy, phyla, pi,
                   new_tree, outgroup_in_tree, ingroup_in_tree, log,
                   phylum_rel_dists, rel_node_dists, files>>

\* lines 145-151: the final reroot, skipped when the MRCA has no edge length.
FinalReroot(t, m) ==
    IF t.len[m] = None THEN t
    ELSE RerootAtEdge(t, m, Half(t.len[m]), Half(t.len[m]))

\* lines 135-153: monophyly messages, final reroot, return.
FinishRoot ==
    /\ pc = "rooting"
    /\ LET t == heap[new_tree]
       IN  /\ log' = log
                \cup (IF leaves_in_mrca # Cardinality(outgroup_in_tree)
                      THEN {"Outgroup is not monophyletic."} ELSE {"Outgroup is monophyletic."})
                \cup (IF leaves_in_mrca # Cardinality(outgroup_in_tree)
                         /\ leaves_in_mrca = LeavesInTree(t)
                      THEN {"The MRCA spans all taxa in the tree."} ELSE {})
                \cup (IF t.len[mrca] = None
                      THEN {"Tree appears to already be rooted on this outgroup."}
                      ELSE {"Rerooting tree."})
           /\ heap' = [heap EXCEPT ![new_tree] = FinalReroot(t, mrca)]
    /\ pc' = "rooted"
    /\ UNCHANGED <<input, taxonomy_arg, taxa_for_dist_inference, exit_status, taxonomy,
                   phyla, pi, rootVars, phylum_rel_dists, rel_node_dists, files>>

(***************************************************************************)
(*              median_rd_over_phyla, lines 753-783                        *)
(***************************************************************************)
\* dict[key] = value on a dictionary kept as a sequence of <<key, value>>.
DictPut(d, key, value) ==
    IF \E i \in 1..Len(d) : d[i][1] = key
    THEN [i \in 1..Len(d) |-> IF d[i][1] = key THEN <<key, value>> ELSE d[i]]
    ELSE Append(d, <<key, value>>)

DictKeys(d) == {d[i][1] : i \in 1..Len(d)}

DictGet(d, key) == d[CHOOSE i \in 1..Len(d) : d[i][1] = key][2]

\* Variant: the domain rank is kept.
PopDomainKept(rel_dists) == rel_dists

\* rel_dists.pop(0, None)
PopDomain(rel_dists) == [r \in DOMAIN rel_dists \ {0} |-> rel_dists[r]]

\* rel_dists[r].pop(x, None) for every rank r and every x in names
PopNames(rel_dists, names) ==
    [r \in DOMAIN rel_dists |->
        [nm \in DOMAIN rel_dists[r] \ names |-> rel_dists[r][nm]]]

\* lines 754-764: the table kept for a rooting on phylum p.
PhylumTable(t, p, tax) ==
    PopNames(PopNames(PopDomain(RelDistToNamedClades(t)), {p}), TaxonomyChildren(p, tax))

\* line 775: a child of the root is taken as ingroup when it has no taxon
\* name or its taxon name does not contain p.
IsIngroupChild(t, c, p) ==
    LET taxon_name == ParseLabel(t.label[c])
    IN  taxon_name = <<>> \/ ~IsSubstring(p, taxon_name)

\* lines 772-777: the first such child, or no node.
IngroupSubtree(t, p) ==
    LET cs == SelectSeq(t.kids[t.root], LAMBDA c : IsIngroupChild(t, c, p))
    IN  IF cs = <<>> THEN NoNode ELSE cs[1]

\* lines 780-781: rel_node_dists[n.id].append(n.rel_dist) in pre-order.
RECURSIVE AppendObservations(_, _, _)
AppendObservations(acc, t, walk) ==
    IF walk = <<>> THEN acc
    ELSE LET n == Head(walk)
         IN  AppendObservations(
                [acc EXCEPT ![t.id[n].v] = Append(@, t.rel_dist[n].v)], t, Tail(walk))

Accumulate ==
    /\ pc = "rooted"
    /\ LET p == phyla[pi]
           t == heap[new_tree]
       IN  IF ~RedComputable(t)
           THEN /\ Halt(IF \E n \in t.nodes \ {t.root} : ~IsNum(t.len[n])
                        THEN "TypeError" ELSE "ZeroDivisionError")
                /\ UNCHANGED <<heap, pi, phylum_rel_dists, rel_node_dists>>
           ELSE LET u == DecorateRelDist(t)
                    ingroup_subtree == IngroupSubtree(u, p)
                    table == DictPut(phylum_rel_dists, PhylumKey(p),
                                     PhylumTable(t, p, taxonomy))
                IN  /\ heap' = [heap EXCEPT ![new_tree] = u]
                    /\ phylum_rel_dists' = table
                    /\ IF ingroup_subtree = NoNode
                          \/ \E n \in SubtreeNodes(u, ingroup_subtree) : u.id[n] = None
                       THEN /\ Halt("AttributeError")
                            /\ UNCHANGED <<pi, rel_node_dists>>
                       ELSE /\ rel_node_dists' =
                                 AppendObservations(rel_node_dists, u,
                                                    Preorder(u, ingroup_subtree))
                            /\ pi' = pi + 1
                            /\ IF pi < Len(phyla)
                               THEN pc' = "root_with_outgroup" /\ UNCHANGED exit_status
                               ELSE IF taxonomy_arg = None
                               THEN pc' = "consensus" /\ UNCHANGED exit_status
                               ELSE Halt("returned")
    /\ UNCHANGED <<input, taxonomy_arg, taxa_for_dist_inference, taxonomy, phyla,
                   rootVars, log, files>>

(***************************************************************************)
(*                       run, lines 1015-1022                              *)
(***************************************************************************)
\* Variant: the first observation stands for the list.
MedianFirst(s) == IF s = <<>> THEN NaN ELSE Num(s[1])

\* Variant: an empty list has the median 0.
MedianZeroWhenEmpty(s) ==
    IF s = <<>> THEN Num(0)
    ELSE LET srt == SortAsc(s)
             n == Len(s)
         IN  IF n % 2 = 1 THEN Num(srt[(n + 1) \div 2])
             ELSE Num((srt[n \div 2] + srt[n \div 2 + 1]) \div 2)

\* numpy.median of a list; nan for the empty list.
Median(s) ==
    IF s = <<>> THEN NaN
    ELSE LET srt == SortAsc(s)
             n == Len(s)
         IN  IF n % 2 = 1 THEN Num(srt[(n + 1) \div 2])
             ELSE Num((srt[n \div 2] + srt[n \div 2 + 1]) \div 2)

\* float subtraction and comparison with nan
FSub(a, b) == IF IsNum(a) /\ IsNum(b) THEN Num(a.v - b.v) ELSE NaN
FLess(a, b) == IsNum(a) /\ IsNum(b) /\ a.v < b.v

\* n.rel_dist = np_median(rel_node_dists[n.id]) below the root, 0.0 at it
ConsensusRelDist(t, acc) ==
    [n \in t.nodes |-> IF n = t.root THEN Num(0) ELSE Median(acc[t.id[n].v])]

\* n.edge_length = n.rel_dist - n.parent_node.rel_dist
ConsensusLength(t, rd) ==
    [n \in t.nodes |-> IF n = t.root THEN t.len[n] ELSE FSub(rd[n], rd[t.parent[n]])]

Consensus ==
    /\ pc = "consensus"
    /\ LET t == heap.tree
           rd == ConsensusRelDist(t, rel_node_dists)
           el == ConsensusLength(t, rd)
       IN  /\ heap' = [heap EXCEPT !.tree = [t EXCEPT !.rel_dist = rd, !.len = el]]
           /\ log' = log \cup (IF \E n \in t.nodes \ {t.root} : FLess(el[n], Num(0))
                               THEN {"Not all branches are positive after scaling."}
                               ELSE {})
    /\ pc' = "phylum_tables"
    /\ pi' = 1
    /\ UNCHANGED <<input, taxonomy_arg, taxa_for_dist_inference, exit_status, taxonomy,
                   phyla, rootVars, phylum_rel_dists, rel_node_dists, files>>

(***************************************************************************)
(*                    Outlier Classifier: the tables                       *)
(***************************************************************************)
\* Taxonomy.rank_labels
RankLabels == <<"domain", "phylum", "class", "order">>
RankLabel(r) == RankLabels[r + 1]

\* sorted(d.keys()) for integer keys
SortedKeys(d) == SortAsc(SetToSeq(DOMAIN d))

\* [dist for taxa, dist in d.iteritems() if taxa in taxa_for_dist_inference]
TrustedDists(d, trusted) ==
    LET names == SetToSeq(DOMAIN d \cap trusted)
    IN  [i \in 1..Len(names) |-> d[names[i]]]

\* Variant: a rank needs two trusted taxa.
NoDataBelowTwo(v) == Len(v) < 2

\* lines 352 and 199: a rank without a trusted taxon gets no median and no
\* percentiles.
NoData(v) == Len(v) = 0

\* lines 349-355: median RED of the trusted taxa of each rank.
MedianRelDist(rel_dists, trusted) ==
    LET with == {r \in DOMAIN rel_dists : ~NoData(TrustedDists(rel_dists[r], trusted))}
    IN  [r \in with |-> Median(TrustedDists(rel_dists[r], trusted)).v]

\* lines 364-369 and 630-635: the rank whose median is closest to dist; the
\* medians are visited in key order and a later one wins only if closer.
RECURSIVE ClosestRankFrom(_, _, _, _, _)
ClosestRankFrom(dist, medians, ranks, closest_rank_dist, closest_rank) ==
    IF ranks = <<>> THEN closest_rank
    ELSE LET abs_dist == IF dist >= medians[Head(ranks)]
                         THEN dist - medians[Head(ranks)]
                         ELSE medians[Head(ranks)] - dist
         IN  IF abs_dist < closest_rank_dist
             THEN ClosestRankFrom(dist, medians, Tail(ranks), abs_dist,
                                  RankLabel(Head(ranks)))
             ELSE ClosestRankFrom(dist, medians, Tail(ranks), closest_rank_dist,
                                  closest_rank)

\* Variant: closest_rank_dist is never lowered, so the last rank visited
\* wins.
ClosestRankLast(dist, medians) ==
    RankLabel(SortedKeys(medians)[Len(SortedKeys(medians))])

\* The start value 1e10 is far above every distance; 1e6 stands for it.
ClosestRank(dist, medians) ==
    ClosestRankFrom(dist, medians, SortedKeys(medians), 1000000 * One, "unbound")

\* Variant: the bounds themselves belong to the outer bands.
ClassificationClosedBounds(delta) ==
    IF delta <= 0 - VeryBound THEN "very overclassified"
    ELSE IF delta <= 0 - OkBound THEN "overclassified"
    ELSE IF delta >= VeryBound THEN "very underclassified"
    ELSE IF delta >= OkBound THEN "underclassified"
    ELSE "OK"

\* Variant: the inner bounds are tested before the outer ones.
ClassificationInnerFirst(delta) ==
    IF delta < 0 - OkBound THEN "overclassified"
    ELSE IF delta < 0 - VeryBound THEN "very overclassified"
    ELSE IF delta > OkBound THEN "underclassified"
    ELSE IF delta > VeryBound THEN "very underclassified"
    ELSE "OK"

\* lines 371-379
Classification(delta) ==
    IF delta < 0 - VeryBound THEN "very overclassified"
    ELSE IF delta < 0 - OkBound THEN "overclassified"
    ELSE IF delta > VeryBound THEN "very underclassified"
    ELSE IF delta > OkBound THEN "underclassified"
    ELSE "OK"

\* lines 637-645
SummaryClassification(delta) ==
    IF delta < 0 - VeryBound THEN "very overclassified"
    ELSE IF delta < 0 - OkBound THEN "overclassified"
    ELSE IF delta > VeryBound THEN "very underclassified"
    ELSE IF delta > OkBound THEN "underclassified"
    ELSE "OK"

\* lines 362-393: the row of one clade.
MedianOutlierRow(rank, clade_label, dist, medians) ==
    IF rank \in DOMAIN medians
    THEN [rank |-> rank, taxon |-> clade_label, dist |-> dist,
          delta |-> dist - medians[rank],
          closest_rank |-> ClosestRank(dist, medians),
          classification |-> Classification(dist - medians[rank])]
    ELSE [rank |-> rank, taxon |-> clade_label, dist |-> dist,
          delta |-> 0 - One,
          closest_rank |-> "NA",
          classification |-> "Insufficent data to calcualte median for rank."]

\* lines 348-394: _median_outlier_file, the rows written.
MedianOutlierFile(rel_dists, trusted) ==
    LET medians == MedianRelDist(rel_dists, trusted)
        ranks == SortedKeys(rel_dists)
        rowsOf(rank) ==
            LET names == SetToSeq(DOMAIN rel_dists[rank])
            IN  [i \in 1..Len(names) |->
                    MedianOutlierRow(rank, names[i], rel_dists[rank][names[i]], medians)]
    IN  Concat([i \in 1..Len(ranks) |-> rowsOf(ranks[i])])

\* numpy.percentile(v, q), linear interpolation between the closest ranks.
Percentile(v, q) ==
    LET srt == SortAsc(v)
        pos == (Len(v) - 1) * q
        lo == pos \div 100 + 1
        hi == IF lo < Len(v) THEN lo + 1 ELSE lo
    IN  srt[lo] + ((srt[hi] - srt[lo]) * (pos % 100)) \div 100

\* lines 196-216: percentiles[i] for the i-th rank in sorted order.
Percentiles(rel_dists, trusted) ==
    LET ranks == SortedKeys(rel_dists)
        with == {i \in 1..Len(ranks) :
                    ~NoData(TrustedDists(rel_dists[ranks[i]], trusted))}
    IN  [i \in with |->
            LET v == TrustedDists(rel_dists[ranks[i]], trusted)
            IN  <<Percentile(v, 10), Percentile(v, 50), Percentile(v, 90)>>]

\* lines 249-258: the row of one clade in the rank distribution table.
DistributionRow(i, rank, clade_label, dist, percentiles) ==
    IF i \in DOMAIN percentiles
    THEN [rank |-> rank, taxon |-> clade_label, dist |-> dist,
          p10 |-> percentiles[i][1], p50 |-> percentiles[i][2],
          p90 |-> percentiles[i][3],
          outlier |-> IF ~(dist >= percentiles[i][1] /\ dist <= percentiles[i][3])
                      THEN "True" ELSE "False"]
    ELSE [rank |-> rank, taxon |-> clade_label, dist |-> dist,
          p10 |-> 0 - One, p50 |-> 0 - One, p90 |-> 0 - One,
          outlier |-> "Insufficent data to calculate percentiles"]

\* lines 226-267: the ranks are written in sorted order; the loop is left at
\* the first rank without a clade (num_taxa == 0: break).
RECURSIVE DistributionRowsFrom(_, _, _, _)
DistributionRowsFrom(rel_dists, ranks, i, percentiles) ==
    IF i > Len(ranks) THEN <<>>
    ELSE LET names == SetToSeq(DOMAIN rel_dists[ranks[i]])
             rows == [j \in 1..Len(names) |->
                        DistributionRow(i, ranks[i], names[j],
                                        rel_dists[ranks[i]][names[j]], percentiles)]
         IN  IF Len(names) = 0 THEN rows
             ELSE rows \o DistributionRowsFrom(rel_dists, ranks, i + 1, percentiles)

\* lines 218-301: _distribution_plot, the rows of the distribution table.
DistributionTable(rel_dists, trusted) ==
    DistributionRowsFrom(rel_dists, SortedKeys(rel_dists), 1,
                         Percentiles(rel_dists, trusted))

\* lines 405-411: taxa_median_rd, rank -> taxon -> RED under each rooting.
TaxaMedianRd(prd) ==
    LET ranks == UNION {DOMAIN prd[i][2] : i \in 1..Len(prd)}
        names(r) == UNION {DOMAIN prd[i][2][r] :
                             i \in {j \in 1..Len(prd) : r \in DOMAIN prd[j][2]}}
        has(i, r, nm) == r \in DOMAIN prd[i][2] /\ nm \in DOMAIN prd[i][2][r]
    IN  [r \in {q \in ranks : names(q) # {}} |->
            [nm \in names(r) |->
                LET from == SelectSeq([i \in 1..Len(prd) |-> i],
                                      LAMBDA i : has(i, r, nm))
                IN  [k \in 1..Len(from) |-> prd[from[k]][2][r][nm]]]]

\* lines 424-433: rank_median_rd, the median over the trusted taxa of a rank
\* of their median RED.
RankMedianRd(prd, trusted) ==
    LET medians_for_taxa == TaxaMedianRd(prd)
        v(r) == LET names == SetToSeq(DOMAIN medians_for_taxa[r] \cap trusted)
                IN  [i \in 1..Len(names) |-> Median(medians_for_taxa[r][names[i]]).v]
    IN  [r \in {q \in DOMAIN medians_for_taxa : v(q) # <<>>} |-> Median(v(r)).v]

\* lines 623-661: _median_summary_outlier_file, the rows of the outlier table.
MedianSummaryOutlierFile(prd, trusted) ==
    LET medians_for_taxa == TaxaMedianRd(prd)
        median_for_rank == RankMedianRd(prd, trusted)
        ranks == SortedKeys(median_for_rank)
        rowsOf(rank) ==
            LET names == SetToSeq(DOMAIN medians_for_taxa[rank])
            IN  [i \in 1..Len(names) |->
                    LET taxon_median == Median(medians_for_taxa[rank][names[i]]).v
                    IN  [rank |-> rank, taxon |-> names[i], dist |-> taxon_median,
                         delta |-> taxon_median - median_for_rank[rank],
                         closest_rank |-> ClosestRank(taxon_median, median_for_rank),
                         classification |->
                            SummaryClassification(taxon_median - median_for_rank[rank])]]
    IN  Concat([i \in 1..Len(ranks) |-> rowsOf(ranks[i])])

(***************************************************************************)
(*                        run, lines 1024-1078                             *)
(***************************************************************************)
\* lines 902-909: without a plot file every taxon named in the tree is
\* plotted (the most specific name of each label).
TaxaToPlot(t) ==
    {t.label[n][Len(t.label[n])] : n \in {x \in t.nodes : t.label[x] # <<>>}}

\* lines 1030-1033: del rel_dists[r][k] for the taxa that are not plotted.
RestrictToPlot(rel_dists, taxa_to_plot) ==
    IF taxa_to_plot = {} THEN rel_dists
    ELSE [r \in DOMAIN rel_dists |->
            [nm \in DOMAIN rel_dists[r] \cap taxa_to_plot |-> rel_dists[r][nm]]]

FileName(dir, name) == dir \o <<"/", name>>

\* lines 1024-1051: the tables and the plot of one phylum.
PhylumTables ==
    /\ pc = "phylum_tables"
    /\ pi <= Len(phylum_rel_dists)
    /\ LET phylum == phylum_rel_dists[pi][1]
           rel_dists == RestrictToPlot(phylum_rel_dists[pi][2], TaxaToPlot(heap.tree))
       IN  /\ phylum_rel_dists' = [phylum_rel_dists EXCEPT ![pi] = <<phylum, rel_dists>>]
           /\ files' =
                DictPut(
                  DictPut(
                    DictPut(files,
                            FileName(phylum, "rank_distribution.tsv"),
                            DistributionTable(rel_dists, taxa_for_dist_inference)),
                    FileName(phylum, "rank_distribution.png"), <<>>),
                  FileName(phylum, "median_outlier.tsv"),
                  MedianOutlierFile(rel_dists, taxa_for_dist_inference))
    /\ pi' = pi + 1
    /\ pc' = IF pi < Len(phylum_rel_dists) THEN "phylum_tables" ELSE "summary"
    /\ UNCHANGED <<input, heap, taxonomy_arg, taxa_for_dist_inference, exit_status,
                   taxonomy, phyla, rootVars, log, rel_node_dists>>

\* _write_rd, lines 789-795: one row per node in pre-order.
WriteRd(t) ==
    LET pre == Preorder(t, t.root)
    IN  [i \in 1..Len(pre) |-> [node |-> pre[i], rel_dist |-> t.rel_dist[pre[i]]]]

\* tree.write_to_path: the edge length of every node in pre-order.
WriteTree(t) ==
    LET pre == Preorder(t, t.root)
    IN  [i \in 1..Len(pre) |-> [node |-> pre[i], edge_length |-> t.len[pre[i]]]]

\* lines 1053-1078: the summary plot and tables, the node table, the tree.
SummaryTables ==
    /\ pc = "summary"
    /\ files' =
         DictPut(
           DictPut(
             DictPut(
               DictPut(
                 DictPut(files, <<"summary.png">>, <<>>),
                 <<"summary.dict">>,
                 <<RankMedianRd(phylum_rel_dists, taxa_for_dist_inference)>>),
               <<"summary.tsv">>,
               MedianSummaryOutlierFile(phylum_rel_dists, taxa_for_dist_inference)),
             <<"node_rd.tsv">>, WriteRd(heap.tree)),
           <<"scaled.tree">>, WriteTree(heap.tree))
    /\ Halt("returned")
    /\ UNCHANGED <<input, heap, taxonomy_arg, taxa_for_dist_inference, taxonomy, phyla,
                   pi, rootVars, log, phylum_rel_dists, rel_node_dists>>

Next ==
    \/ MedianBegin
    \/ RootBegin
    \/ TrialReroot
    \/ FinishRoot
    \/ Accumulate
    \/ Consensus
    \/ PhylumTables
    \/ SummaryTables

Spec == Init /\ [][Next]_vars

(***************************************************************************)
(*   The table writers on bounded tables: two rootings, the clades p__A    *)
(*   and p__B at the phylum rank and c__X at the class rank, RED values    *)
(*   on a grid of tenths.                                                  *)
(***************************************************************************)
MaxGrid == 3

Grid == {k * OkBound : k \in 0..MaxGrid}

CoarseGrid == {0, VeryBound}

DictsOver(names, values) == UNION {[S -> values] : S \in SUBSET names}

\* rank -> clade -> RED; the class rank may be missing.
TablesOver(values) ==
    {[r \in {1} |-> d1] : d1 \in DictsOver({PhylumA, PhylumB}, values)}
    \cup {[r \in {1, 2} |-> IF r = 1 THEN d1 ELSE d2] :
             d1 \in DictsOver({PhylumA, PhylumB}, values),
             d2 \in DictsOver({ClassX}, values)}

InitTables ==
    /\ input = "three_phyla"
    /\ heap = [tree |-> AssignIds(InputTree(input)), clone |-> InputTree(input)]
    /\ taxonomy_arg = None
    /\ taxa_for_dist_inference \in SUBSET {PhylumA, PhylumB, ClassX}
    /\ pc = "phylum_tables"
    /\ exit_status = "running"
    /\ taxonomy = None
    /\ phyla = <<>>
    /\ pi = 1
    /\ new_tree = "tree"
    /\ outgroup_in_tree = {}
    /\ ingroup_in_tree = {}
    /\ mrca = NoNode
    /\ leaves_in_mrca = 0
    /\ trials = 0
    /\ log = {}
    /\ \E t1 \in TablesOver(Grid), t2 \in TablesOver(CoarseGrid) :
          phylum_rel_dists = <<<<<<"x">>, t1>>, <<<<"y">>, t2>>>>
    /\ rel_node_dists = <<>>
    /\ files = <<>>

NextTables ==
    \/ PhylumTables
    \/ SummaryTables

SpecTables == InitTables /\ [][NextTables]_vars

(***************************************************************************)
(*                             Properties                                  *)
(***************************************************************************)
\* Positions between the id assignment of median_rd_over_phyla and its return.
InAggregation == pc \in {"root_with_outgroup", "trial_reroot", "rooting", "rooted"}

\* The input tree as it is right before the first rooting.
TreeBeforeRootings == AssignIds(InputTree(input))

\* An exit status that reports a failure to the caller of the program.
IsErrorStatus(status) == status \notin {"running", "returned", "exit(0)"}

EmptyOutgroupHalt ==
    pc = "halted" /\ "No outgroup taxa identified in the tree." \in log

\* C1: whenever root_with_outgroup returns a tree (some outgroup leaf and some
\* ingroup leaf exist), the MRCA of the outgroup leaves in the returned tree
\* is a direct child of its root.
C1_OutgroupMrcaIsChildOfRoot ==
    pc = "rooted" =>
        LET t == heap[new_tree]
        IN  t.parent[Mrca(t, outgroup_in_tree)] = t.root

\* C2: when no leaf belongs to the outgroup, root_with_outgroup ends the
\* aggregation with an error outcome: no result is returned, the phylum is not
\* skipped, and the exit status is not a success status.
C2_EmptyOutgroupIsAnError ==
    EmptyOutgroupHalt =>
        /\ IsErrorStatus(exit_status)
        /\ pi <= Len(phyla)
        /\ Len(phylum_rel_dists) = pi - 1

\* C3: with fewer than two candidate phyla median_rd_over_phyla fails before
\* any rerooting, RED computation or accumulator update, and no output file
\* has been written.
C3_TooFewPhylaFailsFirst ==
    (pc # "median_rd_over_phyla" /\ Len(phyla) < 2) =>
        /\ pc = "halted"
        /\ exit_status = "exit(-1)"
        /\ files = <<>>
        /\ phylum_rel_dists = <<>>
        /\ rel_node_dists = <<>>
        /\ trials = 0
        /\ heap = [tree |-> InputTree(input), clone |-> InputTree(input)]

C3_Witness ==
    pc = "halted" /\ exit_status = "exit(-1)" /\ Len(phyla) = 1

\* C4: during the aggregation the input tree stays what it was before the
\* first rooting, whatever was done to the working copies, and every rooting
\* starts from that tree.
C4_InputTreeUnchanged ==
    /\ (InAggregation \/ pc = "consensus") => heap.tree = TreeBeforeRootings
    /\ (pc = "trial_reroot" /\ trials = 0) => heap[new_tree] = TreeBeforeRootings

C4_Witness ==
    /\ pc = "consensus"
    /\ pi > 2
    /\ heap.clone.root # heap.tree.root
    /\ heap.tree = TreeBeforeRootings

\* d is named below p in the lineage of some genome.
IsDescendantTaxon(d, p) ==
    \E g \in DOMAIN taxonomy :
        \E i, j \in 1..Len(taxonomy[g]) :
            i < j /\ taxonomy[g][i] = p /\ taxonomy[g][j] = d

\* C10: the table stored for a phylum p has no domain rank, no entry for p and
\* no entry for a taxon below p; the entries of the other named clades are
\* the ones computed on the rooted tree.
C10_PhylumTableStripped ==
    (InAggregation \/ pc = "consensus") =>
        /\ \A i \in 1..Len(phylum_rel_dists) :
             LET p == phyla[i]
                 table == phylum_rel_dists[i][2]
             IN  /\ 0 \notin DOMAIN table
                 /\ \A r \in DOMAIN table : \A nm \in DOMAIN table[r] :
                        nm # p /\ ~IsDescendantTaxon(nm, p)
        /\ (pc \in {"root_with_outgroup", "consensus"} /\ pi > 1) =>
             LET p == phyla[pi - 1]
                 table == phylum_rel_dists[Len(phylum_rel_dists)][2]
                 full == RelDistToNamedClades(heap[new_tree])
             IN  \A r \in DOMAIN full \ {0} : \A nm \in DOMAIN full[r] :
                    (nm # p /\ ~IsDescendantTaxon(nm, p)) =>
                        /\ r \in DOMAIN table
                        /\ nm \in DOMAIN table[r]
                        /\ table[r][nm] = full[r][nm]

\* A rooting on p__A of the three-phyla tree: the domain, p__A and c__X are
\* computed and removed, p__B and p__AB are kept.
C10_Witness ==
    /\ pc \in {"root_with_outgroup", "consensus"}
    /\ pi > 1
    /\ phyla[pi - 1] = PhylumA
    /\ LET full == RelDistToNamedClades(heap[new_tree])
           table == phylum_rel_dists[Len(phylum_rel_dists)][2]
       IN  /\ 0 \in DOMAIN full
           /\ PhylumA \in DOMAIN full[1]
           /\ 2 \in DOMAIN full /\ ClassX \in DOMAIN full[2]
           /\ 2 \in DOMAIN table /\ DOMAIN table[2] = {}
           /\ PhylumB \in DOMAIN table[1]

InsufficientMedian == "Insufficent data to calcualte median for rank."
InsufficientPercentiles == "Insufficent data to calculate percentiles"

\* The files written for the rooting stored at position i.
OutlierFileOf(i) == FileName(phylum_rel_dists[i][1], "median_outlier.tsv")
DistributionFileOf(i) == FileName(phylum_rel_dists[i][1], "rank_distribution.tsv")

HasFile(name) == name \in DictKeys(files)

Rows(name) == Range(DictGet(files, name))

\* The label the five bands give to a deviation from the rank median.
BandLabel(delta) ==
    CASE delta < 0 - VeryBound -> "very overclassified"
      [] delta >= 0 - VeryBound /\ delta < 0 - OkBound -> "overclassified"
      [] delta >= 0 - OkBound /\ delta <= OkBound -> "OK"
      [] delta > OkBound /\ delta <= VeryBound -> "underclassified"
      [] delta > VeryBound -> "very underclassified"

\* The RED values of the trusted clades of one rank of a table.
TrustedValues(table, r) ==
    {table[r][nm] : nm \in DOMAIN table[r] \cap taxa_for_dist_inference}

\* The number of trusted clades of one rank of a table.
NumTrusted(table, r) == Cardinality(DOMAIN table[r] \cap taxa_for_dist_inference)

\* C5: in the single-rooting outlier table and in the consensus outlier table
\* every classified clade carries the label of the band its deviation from
\* the rank median falls in, the deviation being clade RED minus rank median.
C5_LabelsFollowBands ==
    /\ \A i \in 1..Len(phylum_rel_dists) :
          HasFile(OutlierFileOf(i)) =>
             \A row \in Rows(OutlierFileOf(i)) :
                row.classification # InsufficientMedian =>
                   /\ row.classification = BandLabel(row.delta)
                   /\ row.delta = row.dist
                        - MedianRelDist(phylum_rel_dists[i][2],
                                        taxa_for_dist_inference)[row.rank]
    /\ HasFile(<<"summary.tsv">>) =>
          \A row \in Rows(<<"summary.tsv">>) :
             /\ row.classification = BandLabel(row.delta)
             /\ row.delta = row.dist
                  - RankMedianRd(phylum_rel_dists, taxa_for_dist_inference)[row.rank]

\* The over side: a clade more than 0.2 below its rank median in a rooting
\* table and in the consensus table, one between 0.1 and 0.2 below in the
\* other rooting table, next to clades that are OK.
C5_Witness ==
    /\ HasFile(<<"summary.tsv">>)
    /\ \E r1, r2 \in Rows(<<"summary.tsv">>) :
          /\ r1.classification = "very overclassified"
          /\ r2.classification = "OK"
    /\ \E r1, r2 \in Rows(OutlierFileOf(1)) :
          /\ r1.classification = "very overclassified"
          /\ r2.classification = "OK"
    /\ \E r1 \in Rows(OutlierFileOf(2)) :
          r1.classification = "overclassified" /\ r1.delta = 0 - VeryBound

\* The under side.
C5_WitnessUnder ==
    /\ HasFile(<<"summary.tsv">>)
    /\ \E r1 \in Rows(<<"summary.tsv">>) : r1.classification = "very underclassified"
    /\ \E r1 \in Rows(OutlierFileOf(1)) : r1.classification = "very underclassified"
    /\ \E r1 \in Rows(OutlierFileOf(2)) :
          r1.classification = "underclassified" /\ r1.delta = VeryBound

\* C6: a rank without a trusted clade has no median, and each of its clades
\* is still reported, as insufficient data, in the single-rooting table and
\* in the consensus table: every clade of the input appears in the output.
C6_EveryCladeReported ==
    /\ \A i \in 1..Len(phylum_rel_dists) :
          HasFile(OutlierFileOf(i)) =>
             LET table == phylum_rel_dists[i][2]
             IN  \A r \in DOMAIN table : \A nm \in DOMAIN table[r] :
                    \E row \in Rows(OutlierFileOf(i)) :
                       /\ row.rank = r /\ row.taxon = nm
                       /\ NumTrusted(table, r) = 0 =>
                             row.classification = InsufficientMedian
    /\ HasFile(<<"summary.tsv">>) =>
          \A i \in 1..Len(phylum_rel_dists) :
             LET table == phylum_rel_dists[i][2]
             IN  \A r \in DOMAIN table : \A nm \in DOMAIN table[r] :
                    \E row \in Rows(<<"summary.tsv">>) : row.rank = r /\ row.taxon = nm

\* The part of C6 that is about the single-rooting table.
C6_SingleRootingPart ==
    \A i \in 1..Len(phylum_rel_dists) :
       HasFile(OutlierFileOf(i)) =>
          LET table == phylum_rel_dists[i][2]
          IN  \A r \in DOMAIN table : \A nm \in DOMAIN table[r] :
                 \E row \in Rows(OutlierFileOf(i)) :
                    /\ row.rank = r /\ row.taxon = nm
                    /\ NumTrusted(table, r) = 0 =>
                          row.classification = InsufficientMedian

\* C7 as stated: a rank with fewer than two trusted taxa gets no median and
\* no percentiles, and its clades are reported as insufficient data.
C7_FewerThanTwoIsInsufficient ==
    \A i \in 1..Len(phylum_rel_dists) :
       LET table == phylum_rel_dists[i][2]
       IN  /\ HasFile(OutlierFileOf(i)) =>
                \A row \in Rows(OutlierFileOf(i)) :
                   NumTrusted(table, row.rank) < 2 =>
                      row.classification = InsufficientMedian
           /\ HasFile(DistributionFileOf(i)) =>
                \A row \in Rows(DistributionFileOf(i)) :
                   NumTrusted(table, row.rank) < 2 =>
                      row.outlier = InsufficientPercentiles

\* C7 amended: a rank is left without median and percentiles, and its clades
\* are reported as insufficient data, exactly when it has no trusted taxon;
\* with a single trusted taxon the median and the percentiles are that
\* taxon's RED and the clades of the rank are classified against it.
C7_InsufficientOnlyWithoutTrusted ==
    \A i \in 1..Len(phylum_rel_dists) :
       LET table == phylum_rel_dists[i][2]
           only(r) == CHOOSE x \in TrustedValues(table, r) : TRUE
       IN  /\ HasFile(OutlierFileOf(i)) =>
                \A row \in Rows(OutlierFileOf(i)) :
                   /\ (row.classification = InsufficientMedian)
                         <=> (NumTrusted(table, row.rank) = 0)
                   /\ NumTrusted(table, row.rank) = 1 =>
                         /\ row.delta = row.dist - only(row.rank)
                         /\ row.classification = BandLabel(row.delta)
           /\ HasFile(DistributionFileOf(i)) =>
                \A row \in Rows(DistributionFileOf(i)) :
                   /\ (row.outlier = InsufficientPercentiles)
                         <=> (NumTrusted(table, row.rank) = 0)
                   /\ NumTrusted(table, row.rank) = 1 =>
                         /\ row.p10 = only(row.rank)
                         /\ row.p50 = only(row.rank)
                         /\ row.p90 = only(row.rank)

\* A table whose class rank has one trusted taxon, classified against its
\* own RED, next to a phylum rank with two trusted taxa, one of them an
\* outlier, and a second table whose phylum rank is empty.
C7_Witness ==
    /\ HasFile(OutlierFileOf(1)) /\ HasFile(DistributionFileOf(1))
    /\ HasFile(OutlierFileOf(2))
    /\ LET t1 == phylum_rel_dists[1][2]
           t2 == phylum_rel_dists[2][2]
       IN  /\ DOMAIN t1 = {1, 2}
           /\ NumTrusted(t1, 2) = 1
           /\ NumTrusted(t1, 1) = 2
           /\ \E row \in Rows(OutlierFileOf(1)) :
                 row.rank = 2 /\ row.classification = "OK" /\ row.delta = 0
           /\ \E row \in Rows(OutlierFileOf(1)) :
                 row.rank = 1 /\ row.classification = "underclassified"
           /\ \E row \in Rows(DistributionFileOf(1)) :
                 row.rank = 2 /\ row.outlier = "False"
           /\ DOMAIN t2 = {1}
           /\ DOMAIN t2[1] = {}

(***************************************************************************)
(*   The aggregation as a function of the order of the phyla, to compare   *)
(*   the run of the program with the runs over every other order.          *)
(***************************************************************************)
\* root_with_outgroup, lines 93-153, on some ingroup leaf.
RootedOn(t, p, tax) ==
    LET outgroup == Outgroup(tax, p)
        leaves == {n \in t.nodes : IsLeaf(t, n)}
        og == {t.taxon[n] : n \in {x \in leaves : t.taxon[x] \in outgroup}}
        rnd_ingroup_leaf == CHOOSE n \in leaves : t.taxon[n] \notin outgroup
        l == t.len[rnd_ingroup_leaf]
        u == RerootAtEdge(t, rnd_ingroup_leaf, Half(l), Half(l))
    IN  FinalReroot(u, Mrca(u, og))

\* lines 743-783: the loop over the phyla ps from the tables prd and the
\* accumulators acc.
RECURSIVE AggregateFrom(_, _, _, _, _)
AggregateFrom(t, tax, ps, prd, acc) ==
    IF ps = <<>> THEN [phylum_rel_dists |-> prd, rel_node_dists |-> acc]
    ELSE LET p == Head(ps)
             cur_tree == RootedOn(t, p, tax)
             u == DecorateRelDist(cur_tree)
         IN  AggregateFrom(t, tax, Tail(ps),
                DictPut(prd, PhylumKey(p), PhylumTable(cur_tree, p, tax)),
                AppendObservations(acc, u, Preorder(u, IngroupSubtree(u, p))))

\* median_rd_over_phyla over the phyla in the order ps.
MedianRdOverPhyla(ps) ==
    AggregateFrom(TreeBeforeRootings, taxonomy, ps, <<>>,
                  [i \in 0..(Cardinality(TreeBeforeRootings.nodes) - 1) |-> <<>>])

\* np_median(dists) of every taxon of taxa_median_rd (lines 424, 627).
TaxonMedians(prd) ==
    LET medians_for_taxa == TaxaMedianRd(prd)
    IN  [r \in DOMAIN medians_for_taxa |->
            [nm \in DOMAIN medians_for_taxa[r] |-> Median(medians_for_taxa[r][nm])]]

\* The aggregation has returned and run has set the consensus values.
ConsensusDone ==
    /\ pc = "phylum_tables"
    /\ pi = 1
    /\ phyla # <<>>

\* C8: once the consensus values are set, the consensus RED of every node,
\* the median RED of every taxon and the median RED of every rank equal the
\* ones of a run that processes the same phyla in any other order. (The
\* phyla of the inputs have distinct directory keys.)
C8_ConsensusIsOrderIndependent ==
    ConsensusDone =>
        \A ps \in Perms(Range(phyla)) :
            LET other == MedianRdOverPhyla(ps)
            IN  /\ heap.tree.rel_dist =
                      ConsensusRelDist(TreeBeforeRootings, other.rel_node_dists)
                /\ TaxonMedians(phylum_rel_dists) = TaxonMedians(other.phylum_rel_dists)
                /\ RankMedianRd(phylum_rel_dists, taxa_for_dist_inference) =
                      RankMedianRd(other.phylum_rel_dists, taxa_for_dist_inference)

\* Three phyla were processed, and another order of them leaves a node's
\* observations and the tables in another order than this run has them.
C8_Witness ==
    /\ ConsensusDone
    /\ Len(phyla) = 3
    /\ \E ps \in Perms(Range(phyla)) :
          LET other == MedianRdOverPhyla(ps)
          IN  /\ other.phylum_rel_dists # phylum_rel_dists
              /\ \E n \in heap.tree.nodes \ {heap.tree.root} :
                    LET i == heap.tree.id[n].v
                    IN  /\ Len(rel_node_dists[i]) = 2
                        /\ other.rel_node_dists[i] # rel_node_dists[i]
                        /\ IsNum(heap.tree.rel_dist[n])

\* The consensus values are set (run, line 1022) and the program goes on.
AfterConsensus ==
    /\ DOMAIN rel_node_dists # {}
    /\ \/ pc \in {"phylum_tables", "summary"}
       \/ pc = "halted" /\ HasFile(<<"scaled.tree">>)

\* The nodes below the root that no rooting has observed.
NeverObserved ==
    {n \in heap.tree.nodes \ {heap.tree.root} :
        rel_node_dists[heap.tree.id[n].v] = <<>>}

\* C9: after the consensus values are set, a node below the root without
\* any observation has no number as its RED, and neither its own edge length
\* nor the edge length of any of its children is a number, in the tree and
\* in the files written from it.
C9_UnobservedNodeIsMissing ==
    AfterConsensus =>
        \A n \in NeverObserved :
            LET t == heap.tree
                own == {n} \cup Range(t.kids[n])
            IN  /\ t.rel_dist[n] = NaN
                /\ \A c \in own : ~IsNum(t.len[c])
                /\ HasFile(<<"node_rd.tsv">>) =>
                      \A row \in Rows(<<"node_rd.tsv">>) :
                          row.node = n => ~IsNum(row.rel_dist)
                /\ HasFile(<<"scaled.tree">>) =>
                      \A row \in Rows(<<"scaled.tree">>) :
                          row.node \in own => ~IsNum(row.edge_length)

\* The files are written from a tree with an unobserved inner node next to
\* observed nodes.
C9_Witness ==
    /\ AfterConsensus
    /\ HasFile(<<"scaled.tree">>)
    /\ \E n \in NeverObserved : heap.tree.kids[n] # <<>>
    /\ \E n \in heap.tree.nodes \ {heap.tree.root} : IsNum(heap.tree.len[n])

(***************************************************************************)
(*   rd_fixed_root and mblet, lines 664-708, on bounded trees: one         *)
(*   rooting, every edge length a whole number from 0 to MaxLen.           *)
(***************************************************************************)
MaxLen == 2

\* (((a1:l3,a2:l4)c__X:l2,a3:l5)p__A:l1,b1:l6)d__Bacteria;
TreeWithLengths(l) ==
    MkTree(<<Inner(NoNode, None, <<Domain>>),
             Inner(0, Num(l[1]), <<PhylumA>>),
             Inner(1, Num(l[2]), <<ClassX>>),
             Leaf(2, Num(l[3]), "a1"), Leaf(2, Num(l[4]), "a2"),
             Leaf(1, Num(l[5]), "a3"),
             Leaf(0, Num(l[6]), "b1")>>)

\* The nodes below the seed node in pre-order (line 681).
BelowSeed(t) == Tail(Preorder(t, t.root))

\* Variant: the edge length is the RED itself, the parent's RED is not
\* subtracted.
RdToParentFromRoot(t, n) == t.rel_dist[n]

\* rd_to_parent = n.rel_dist - n.parent_node.rel_dist
RdToParent(t, n) == FSub(t.rel_dist[n], t.rel_dist[t.parent[n]])

InitFixedRoot ==
    /\ input \in {"fixed_root", "mblet"}
    /\ \E l \in [1..6 -> 0..MaxLen] :
          heap = [tree |-> TreeWithLengths(l), clone |-> TreeWithLengths(l)]
    /\ taxonomy_arg = None
    /\ taxa_for_dist_inference = {PhylumA, ClassX}
    /\ pc = IF input = "fixed_root" THEN "rd_fixed_root" ELSE "mblet"
    /\ exit_status = "running"
    /\ taxonomy = None
    /\ phyla = <<>>
    /\ pi = 0
    /\ new_tree = "tree"
    /\ outgroup_in_tree = {}
    /\ ingroup_in_tree = {}
    /\ mrca = NoNode
    /\ leaves_in_mrca = 0
    /\ trials = 0
    /\ log = {}
    /\ phylum_rel_dists = <<>>
    /\ rel_node_dists = <<>>
    /\ files = <<>>

\* lines 676-680: the table of the named clades and the decoration.
RdFixedRoot ==
    /\ pc = "rd_fixed_root"
    /\ LET t == heap.tree
       IN  IF ~RedComputable(t)
           THEN /\ Halt("ZeroDivisionError")
                /\ UNCHANGED <<heap, pi, phylum_rel_dists>>
           ELSE /\ phylum_rel_dists' = <<<<<<"fixed_root">>, RelDistToNamedClades(t)>>>>
                /\ heap' = [heap EXCEPT !.tree = DecorateRelDist(t)]
                /\ pi' = 1
                /\ pc' = "rescale"
                /\ UNCHANGED exit_status
    /\ UNCHANGED <<input, taxonomy_arg, taxa_for_dist_inference, taxonomy, phyla,
                   rootVars, log, rel_node_dists, files>>

\* lines 681-685 and 703-707: one iteration of the loop over the nodes below
\* the seed node; the function returns after the last one.
RescaleEdge ==
    /\ pc = "rescale"
    /\ LET t == heap.tree
           walk == BelowSeed(t)
           n == walk[pi]
       IN  /\ heap' = [heap EXCEPT !.tree = [t EXCEPT !.len[n] = RdToParent(t, n)]]
           /\ pi' = pi + 1
           /\ IF pi < Len(walk)
              THEN pc' = "rescale" /\ UNCHANGED exit_status
              ELSE Halt("returned")
    /\ UNCHANGED <<input, taxonomy_arg, taxa_for_dist_inference, taxonomy, phyla,
                   rootVars, log, phylum_rel_dists, rel_node_dists, files>>

\* Mean branch length to extant taxa, the variant of the divergence without
\* the normalisation: the cumulative branch length from the root, 1.0 being
\* One.
RECURSIVE MbletOf(_, _)
MbletOf(t, n) ==
    IF n = t.root THEN 0 ELSE MbletOf(t, t.parent[n]) + t.len[n].v * One

\* RelativeDistance.rel_dist_to_named_clades(tree, mblet=True)
MbletToNamedClades(t) ==
    LET named == {n \in t.nodes : ~IsLeaf(t, n) /\ Len(t.label[n]) = 1}
        ranks == {RankIndex(t.label[n][1]) : n \in named}
        at(r) == {n \in named : RankIndex(t.label[n][1]) = r}
    IN  [r \in ranks |->
            [nm \in {t.label[n][1] : n \in at(r)} |->
                MbletOf(t, CHOOSE n \in at(r) : t.label[n][1] = nm)]]

\* lines 698-702: the table of the named clades with mblet=True, then
\* decorate_rel_dist(tree) without the flag.
Mblet ==
    /\ pc = "mblet"
    /\ LET t == heap.tree
       IN  IF ~RedComputable(t)
           THEN /\ Halt("ZeroDivisionError")
                /\ UNCHANGED <<heap, pi, phylum_rel_dists>>
           ELSE /\ phylum_rel_dists' = <<<<<<"mblet">>, MbletToNamedClades(t)>>>>
                /\ heap' = [heap EXCEPT !.tree = DecorateRelDist(t)]
                /\ pi' = 1
                /\ pc' = "rescale"
                /\ UNCHANGED exit_status
    /\ UNCHANGED <<input, taxonomy_arg, taxa_for_dist_inference, taxonomy, phyla,
                   rootVars, log, rel_node_dists, files>>

NextFixedRoot ==
    \/ RdFixedRoot
    \/ Mblet
    \/ RescaleEdge

SpecFixedRoot == InitFixedRoot /\ [][NextFixedRoot]_vars

\* The decoration of rd_fixed_root has been made.
Decorated == input = "fixed_root" /\ pc \in {"rescale", "halted"} /\ pi > 0

\* RED(root) = 0, every RED lies in [0, 1], no child lies below its parent.
RedIsMonotone(t) ==
    /\ \A n \in t.nodes : IsNum(t.rel_dist[n])
    /\ t.rel_dist[t.root] = Num(0)
    /\ \A n \in t.nodes : t.rel_dist[n].v >= 0 /\ t.rel_dist[n].v <= One
    /\ \A n \in t.nodes \ {t.root} : t.rel_dist[n].v >= t.rel_dist[t.parent[n]].v

\* C11 as stated: on a tree with non-negative edge lengths, zero lengths
\* included, rd_fixed_root decorates every node, with RED(root) = 0, every
\* RED in [0, 1] and RED(child) >= RED(parent).
C11_RedDefinedForNonNegativeLengths ==
    (input = "fixed_root" /\ pc # "rd_fixed_root") =>
        /\ exit_status \in {"running", "returned"}
        /\ RedIsMonotone(heap.tree)

\* The edge lengths the run of rd_fixed_root started from: a node keeps its
\* length until the loop reaches it.
ZeroOverZero(t) ==
    \E n \in t.nodes \ {t.root} : t.len[n] = Num(0) /\ SumSeq(DistToLeaves(t, n)) = 0

\* C11 amended: when no node has a zero edge length together with a zero
\* average leaf distance, the decoration is made and RED(root) = 0, every
\* RED lies in [0, 1] and RED(child) >= RED(parent).
C11_RedDefinedForPositiveDenominators ==
    /\ (input = "fixed_root" /\ pc = "halted" /\ exit_status # "returned") =>
          ZeroOverZero(heap.tree)
    /\ Decorated => RedIsMonotone(heap.tree)

\* A decorated tree with a zero-length inner edge: the RED of c__X equals the
\* RED of p__A, below 1, and the leaves are at 1.
C11_Witness ==
    /\ Decorated
    /\ pc = "rescale" /\ pi = 1
    /\ heap.tree.len[2] = Num(0)
    /\ heap.tree.rel_dist[2] = heap.tree.rel_dist[1]
    /\ heap.tree.rel_dist[1].v > 0 /\ heap.tree.rel_dist[1].v < One
    /\ heap.tree.rel_dist[3] = Num(One)

\* The sum of the edge lengths on the path from the root down to n.
RECURSIVE PathLength(_, _)
PathLength(t, n) ==
    IF n = t.root THEN 0 ELSE PathLength(t, t.parent[n]) + t.len[n].v

\* rd_fixed_root has returned.
FixedRootReturned == input = "fixed_root" /\ pc = "halted" /\ exit_status = "returned"

\* C12: when rd_fixed_root has returned, the edge length of every node below
\* the root is RED(node) - RED(parent) and the edge lengths from the root
\* down to a leaf add up to the RED of the leaf; no step of the rewriting
\* loop changes the RED of any node.
C12_EdgeLengthsAreRedDeltas ==
    /\ [](FixedRootReturned =>
            LET t == heap.tree
            IN  /\ \A n \in t.nodes \ {t.root} :
                      t.len[n] = Num(t.rel_dist[n].v - t.rel_dist[t.parent[n]].v)
                /\ \A n \in t.nodes : IsLeaf(t, n) => PathLength(t, n) = t.rel_dist[n].v)
    /\ [][pc = "rescale" => heap'.tree.rel_dist = heap.tree.rel_dist]_vars

\* A returned tree whose leaf a1 at RED 1 lies below two inner nodes at
\* different RED between 0 and 1.
C12_Witness ==
    /\ FixedRootReturned
    /\ LET t == heap.tree
       IN  /\ t.rel_dist[3] = Num(One)
           /\ t.len[1].v > 0 /\ t.len[2].v > 0 /\ t.len[3].v > 0
           /\ t.len[1].v + t.len[2].v + t.len[3].v = One

\* |a - b|
AbsDiff(a, b) == IF a >= b THEN a - b ELSE b - a

\* label names a rank with a median that is as close to dist as any.
IsClosestRank(label, dist, medians) ==
    \E r \in DOMAIN medians :
        /\ label = RankLabel(r)
        /\ \A q \in DOMAIN medians :
              AbsDiff(dist, medians[r]) <= AbsDiff(dist, medians[q])

\* C13: in the single-rooting outlier table and in the consensus outlier
\* table, the closest rank reported for a clade of a rank with a median is a
\* rank whose median is as close to the RED of the clade as the median of
\* any rank with a median, whatever the rank of the clade and whatever was
\* reported for the clades before it.
C13_ClosestRankMinimisesDistance ==
    /\ \A i \in 1..Len(phylum_rel_dists) :
          HasFile(OutlierFileOf(i)) =>
             LET medians == MedianRelDist(phylum_rel_dists[i][2], taxa_for_dist_inference)
             IN  \A row \in Rows(OutlierFileOf(i)) :
                    row.rank \in DOMAIN medians =>
                       IsClosestRank(row.closest_rank, row.dist, medians)
    /\ HasFile(<<"summary.tsv">>) =>
          LET medians == RankMedianRd(phylum_rel_dists, taxa_for_dist_inference)
          IN  \A row \in Rows(<<"summary.tsv">>) :
                 IsClosestRank(row.closest_rank, row.dist, medians)

\* Two clades of the phylum rank in one table, one closest to the median of
\* the class rank and one closest to the median of its own rank; the same in
\* the consensus table.
C13_Witness ==
    /\ HasFile(OutlierFileOf(1))
    /\ HasFile(<<"summary.tsv">>)
    /\ \E r1, r2 \in Rows(OutlierFileOf(1)) :
          /\ r1.rank = 1 /\ r1.closest_rank = "class"
          /\ r2.rank = 1 /\ r2.closest_rank = "phylum"
    /\ \E r1, r2 \in Rows(<<"summary.tsv">>) :
          /\ r1.rank = 1 /\ r1.closest_rank = "class"
          /\ r2.rank = 1 /\ r2.closest_rank = "phylum"

\* The program has ended inside the loop of lines 124-133: the outgroup was
\* found and no MRCA has been assigned in this call of root_with_outgroup.
FailedInTrialLoop ==
    pc = "halted" /\ outgroup_in_tree # {} /\ mrca = NoNode

\* C14 as stated: the loop either exits with its stop condition or fails with
\* a retry-bound error.
C14_LoopEndsByStopOrRetryBound ==
    /\ trials <= MaxTrials
    /\ FailedInTrialLoop => exit_status = "RetryBoundExceededError"

\* C14 amended: the loop body runs at most once in every call. After the
\* first reroot the stop condition holds and the loop is left; a call that
\* ends inside the loop ends in the first pass, with the ValueError of
\* random.sample on an empty ingroup or the TypeError of 0.5 * None.
C14_LoopBodyRunsOnce ==
    /\ trials <= 1
    /\ ~(pc = "trial_reroot" /\ trials >= 1)
    /\ pc = "rooting" =>
          /\ trials = 1
          /\ leaves_in_mrca # LeavesInTree(heap[new_tree])
    /\ FailedInTrialLoop =>
          /\ trials = 0
          /\ exit_status \in {"ValueError", "TypeError"}

\* The loop is left after one pass with an outgroup that is not
\* monophyletic and whose MRCA holds all leaves but the drawn one and its
\* sister.
C14_Witness ==
    /\ pc = "rooting"
    /\ trials = 1
    /\ leaves_in_mrca > Cardinality(outgroup_in_tree)
    /\ leaves_in_mrca = LeavesInTree(heap[new_tree]) - 2

\* The five labels from the most over- to the most underclassified.
BandOrder ==
    <<"very overclassified", "overclassified", "OK", "underclassified",
      "very underclassified">>

BandIndex(label) == CHOOSE k \in 1..Len(BandOrder) : BandOrder[k] = label

\* The classified rows of every outlier table written so far.
ClassifiedRows ==
    UNION {Rows(name) : name \in {OutlierFileOf(i) : i \in 1..Len(phylum_rel_dists)}
                                  \cap DictKeys(files)}
    \cup (IF HasFile(<<"summary.tsv">>) THEN Rows(<<"summary.tsv">>) ELSE {})

\* C15: every classified clade carries exactly one of the five labels; a
\* clade with the larger deviation from its rank median never gets a label
\* further to the over side; a deviation of exactly -0.2 is overclassified,
\* of exactly -0.1 and 0.1 OK, of exactly 0.2 underclassified.
C15_ClassificationIsMonotone ==
    \A r1 \in ClassifiedRows :
        r1.classification # InsufficientMedian =>
            /\ r1.classification \in Range(BandOrder)
            /\ r1.delta = 0 - VeryBound => r1.classification = "overclassified"
            /\ r1.delta = 0 - OkBound => r1.classification = "OK"
            /\ r1.delta = OkBound => r1.classification = "OK"
            /\ r1.delta = VeryBound => r1.classification = "underclassified"
            /\ \A r2 \in ClassifiedRows :
                  (r2.classification # InsufficientMedian /\ r1.delta <= r2.delta) =>
                      BandIndex(r1.classification) <= BandIndex(r2.classification)

\* One rooting table holds a clade exactly 0.1 below its rank median, the
\* other a clade exactly 0.2 above, and a clade of the consensus table lies
\* strictly between the two.
C15_Witness ==
    /\ HasFile(<<"summary.tsv">>)
    /\ \E r1 \in Rows(OutlierFileOf(1)), r2 \in Rows(OutlierFileOf(2)),
          r3 \in Rows(<<"summary.tsv">>) :
          /\ r1.delta = 0 - OkBound /\ r1.classification = "OK"
          /\ r2.delta = VeryBound /\ r2.classification = "underclassified"
          /\ r3.delta > r1.delta /\ r3.delta < r2.delta
          /\ r3.delta # 0

\* C16: for every rooting a child of the root is selected as the ingroup
\* subtree, so that its nodes can be walked: a selection always exists.
C16_IngroupSelectionExists ==
    /\ exit_status # "AttributeError"
    /\ (pc = "rooted" /\ RedComputable(heap[new_tree])) =>
          IngroupSubtree(heap[new_tree], phyla[pi]) # NoNode

\* The ids have been assigned (line 741) and the accumulators exist.
IdsAssigned == rel_node_dists # <<>>

\* The accumulator new is the accumulator old or old with one more value.
GrowsByAtMostOne(old, new) ==
    \/ new = old
    \/ /\ Len(new) = Len(old) + 1
       /\ SubSeq(new, 1, Len(old)) = old

\* C17: the ids are the pre-order positions of the nodes of the input tree,
\* assigned before the first rooting; a working copy carries them unchanged
\* and its new nodes carry none; the accumulators are keyed by these ids and
\* after k rootings none holds more than k values; a step of the program
\* adds at most one value to an accumulator and removes none.
C17_IdsAreStableKeys ==
    /\ [](IdsAssigned =>
            LET t == heap.tree
                pre == Preorder(t, t.root)
                u == heap[new_tree]
            IN  /\ \A i \in 1..Len(pre) : t.id[pre[i]] = Num(i - 1)
                /\ DOMAIN rel_node_dists = {t.id[n].v : n \in t.nodes}
                /\ \A n \in u.nodes :
                      u.id[n] = IF n \in t.nodes THEN t.id[n] ELSE None
                /\ \A k \in DOMAIN rel_node_dists :
                      /\ Len(rel_node_dists[k]) <= Len(phyla)
                      /\ InAggregation => Len(rel_node_dists[k]) <= pi - 1)
    /\ [][/\ InAggregation => IdsAssigned
          /\ IdsAssigned =>
               /\ heap'.tree.id = heap.tree.id
               /\ DOMAIN rel_node_dists' = DOMAIN rel_node_dists
               /\ \A k \in DOMAIN rel_node_dists :
                     GrowsByAtMostOne(rel_node_dists[k], rel_node_dists'[k])]_vars

\* After two rootings a node has been observed in both, another in one,
\* another in none, and the working copy holds a node without id.
C17_Witness ==
    /\ IdsAssigned
    /\ pi = 3
    /\ \E j, k, l \in DOMAIN rel_node_dists :
          /\ Len(rel_node_dists[j]) = 2
          /\ Len(rel_node_dists[k]) = 1
          /\ Len(rel_node_dists[l]) = 0
    /\ \E n \in heap[new_tree].nodes : heap[new_tree].id[n] = None

\* The nodes on the way from n up to the root, n included.
RECURSIVE Ancestors(_, _)
Ancestors(t, n) ==
    IF n = NoNode THEN {} ELSE {n} \cup Ancestors(t, t.parent[n])

\* The length of the path between the nodes a and b; an edge without a
\* length counts as 0.
PathBetween(t, a, b) ==
    LET edges == (Ancestors(t, a) \ Ancestors(t, b))
                    \cup (Ancestors(t, b) \ Ancestors(t, a))
        s == SetToSeq(edges)
    IN  SumSeq([i \in 1..Len(s) |-> IF IsNum(t.len[s[i]]) THEN t.len[s[i]].v ELSE 0])

Leaves(t) == {n \in t.nodes : IsLeaf(t, n)}

\* The trees t and u have the same leaves with the same taxa and the same
\* path length between every two of them.
SameLeafDistances(t, u) ==
    /\ Leaves(u) = Leaves(t)
    /\ \A a \in Leaves(t) : u.taxon[a] = t.taxon[a]
    /\ \A a, b \in Leaves(t) : PathBetween(u, a, b) = PathBetween(t, a, b)

\* C18: a reroot puts the new root on an edge and gives each side half of
\* the edge's length, the two halves adding up to the length; after the
\* trial reroot and after the final reroot the working copy has the leaves
\* of the input tree and the same path length between every two leaves.
C18_RerootPreservesLeafDistances ==
    /\ []((InAggregation /\ new_tree = "clone") =>
            SameLeafDistances(heap.tree, heap.clone))
    /\ [][/\ (pc = "trial_reroot" /\ pc' = "rooting") =>
               LET u == heap'.clone
                   x == u.kids[u.root][1]
               IN  /\ x \in ingroup_in_tree
                   /\ Len(u.kids[u.root]) = 2
                   /\ u.len[x].v + u.len[x].v = heap.clone.len[x].v
          /\ (pc = "rooting" /\ pc' = "rooted" /\ IsNum(heap.clone.len[mrca])) =>
               LET u == heap'.clone
               IN  /\ u.kids[u.root][1] = mrca
                   /\ Len(u.kids[u.root]) = 2
                   /\ u.len[mrca].v + u.len[mrca].v = heap.clone.len[mrca].v]_vars

\* The copy has been rerooted twice and its root is a new node between the
\* outgroup's MRCA and the rest, while the input tree has a root with three
\* children.
C18_Witness ==
    /\ pc = "rooted"
    /\ new_tree = "clone"
    /\ heap.clone.root \notin heap.tree.nodes
    /\ heap.clone.kids[heap.clone.root][1] = mrca
    /\ IsNum(heap.clone.len[mrca])
    /\ Len(heap.tree.kids[heap.tree.root]) = 3
    /\ \E a, b \in Leaves(heap.tree) :
          /\ a \in LeafSet(heap.clone, mrca)
          /\ b \notin LeafSet(heap.clone, mrca)
          /\ PathBetween(heap.tree, a, b) > 0

\* The node reached from n by k steps along the parent links, or NoNode when
\* the links end before.
RECURSIVE UpBy(_, _, _)
UpBy(t, n, k) ==
    IF k = 0 \/ n = NoNode THEN n ELSE UpBy(t, t.parent[n], k - 1)

\* t is one rooted tree: the root has no parent, every other node has one
\* parent and is listed once among its children, the children of a node
\* have it as parent, and from every node the parent links lead to the root.
IsRootedTree(t) ==
    /\ t.root \in t.nodes
    /\ t.parent[t.root] = NoNode
    /\ \A n \in t.nodes \ {t.root} :
          /\ t.parent[n] \in t.nodes
          /\ Cardinality({i \in 1..Len(t.kids[t.parent[n]]) :
                             t.kids[t.parent[n]][i] = n}) = 1
    /\ \A n \in t.nodes : \A i \in 1..Len(t.kids[n]) :
          /\ t.kids[n][i] \in t.nodes
          /\ t.parent[t.kids[n][i]] = n
    /\ \A n \in t.nodes :
          \E k \in 0..Cardinality(t.nodes) : UpBy(t, n, k) = t.root

\* C19: after the trial reroot and after the final reroot the working copy
\* is one rooted tree: one root, one parent for every other node, no cycle,
\* every node connected to the root.
C19_WorkingTreeIsRootedTree ==
    InAggregation => IsRootedTree(heap[new_tree])

\* After both reroots the root of the copy is a new node above the
\* outgroup's MRCA and a node of the input tree, left with one child, has
\* been removed.
C19_Witness ==
    /\ pc = "rooted"
    /\ trials = 1
    /\ heap[new_tree].root \notin heap.tree.nodes
    /\ heap[new_tree].kids[heap[new_tree].root][1] = mrca
    /\ \E n \in heap.tree.nodes : n \notin heap[new_tree].nodes
    /\ IsRootedTree(heap[new_tree])

\* The outgroup of the rooting at hand is not monophyletic (line 135).
NotMonophyletic == leaves_in_mrca # Cardinality(outgroup_in_tree)

NegativeBranchWarning == "Not all branches are positive after scaling."

\* C20: the advisory conditions do not stop the run. With an outgroup that
\* is not monophyletic root_with_outgroup still returns a tree rooted on the
\* outgroup's MRCA; when a consensus edge length is negative the warning is
\* logged, the run goes on, and every node below the root has its edge
\* length set to the difference of the REDs, the negative ones included.
C20_AdvisoryConditionsNeverHalt ==
    /\ (pc = "rooted" /\ NotMonophyletic) =>
          LET t == heap[new_tree]
          IN  t.parent[Mrca(t, outgroup_in_tree)] = t.root
    /\ ConsensusDone =>
          LET t == heap.tree
          IN  (\E n \in t.nodes \ {t.root} : FLess(t.len[n], Num(0))) =>
                 /\ NegativeBranchWarning \in log
                 /\ exit_status = "running"
                 /\ \A n \in t.nodes \ {t.root} :
                       t.len[n] = FSub(t.rel_dist[n], t.rel_dist[t.parent[n]])

\* The ranks of a table without a trusted clade, the ranks without any clade
\* among them.
InsufficientRanks(table) == {r \in DOMAIN table : NumTrusted(table, r) = 0}

\* The clade nm of rank r has a row in the table stored under name.
HasRow(name, r, nm) == \E row \in Rows(name) : row.rank = r /\ row.taxon = nm

\* C21: when a rank of a rooting's table has no clade or no trusted clade,
\* every clade of every other rank, the later ranks included, still has its
\* row in the rank distribution table and in the median outlier table.
C21_InsufficientRankIsLocal ==
    \A i \in 1..Len(phylum_rel_dists) :
       (HasFile(DistributionFileOf(i)) /\ HasFile(OutlierFileOf(i))) =>
          LET table == phylum_rel_dists[i][2]
          IN  \A r0 \in InsufficientRanks(table) :
                 \A r \in DOMAIN table \ {r0} : \A nm \in DOMAIN table[r] :
                    /\ HasRow(DistributionFileOf(i), r, nm)
                    /\ HasRow(OutlierFileOf(i), r, nm)

SpansAllWarning == "The MRCA spans all taxa in the tree."

DocumentedRootingErrors ==
    {"EmptyOutgroupError", "DegenerateRootingError", "RetryBoundExceededError",
     "AmbiguousRootError"}

\* root_with_outgroup has been entered with every leaf in the outgroup.
AllLeavesInOutgroup ==
    /\ pc \in {"trial_reroot", "rooting", "rooted", "halted"}
    /\ outgroup_in_tree # {}
    /\ \A n \in Leaves(heap.tree) : heap.tree.taxon[n] \in outgroup_in_tree

\* C23: when every leaf belongs to the outgroup, root_with_outgroup returns
\* no tree and does not repeat the loop: the first draw of an ingroup leaf
\* ends the run with the ValueError of random.sample, before any reroot, and
\* this is none of the errors of the rerooting contract.
C23_AllOutgroupFailsAtFirstDraw ==
    /\ [](AllLeavesInOutgroup =>
            /\ pc \notin {"rooting", "rooted"}
            /\ trials = 0
            /\ mrca = NoNode
            /\ heap[new_tree] = heap.tree
            /\ pc = "halted" =>
                  /\ exit_status = "ValueError"
                  /\ exit_status \notin DocumentedRootingErrors)
    /\ [][(AllLeavesInOutgroup /\ pc = "trial_reroot") =>
             (pc' = "halted" /\ exit_status' = "ValueError")]_vars

\* The run has ended in the rooting on p__A under a taxonomy that puts every
\* genome into p__A; nothing has been accumulated.
C23_Witness ==
    /\ AllLeavesInOutgroup
    /\ pc = "halted"
    /\ exit_status = "ValueError"
    /\ ingroup_in_tree = {}
    /\ Cardinality(outgroup_in_tree) = LeavesInTree(heap.tree)
    /\ phylum_rel_dists = <<>>

\* The internal node of t that carries the clade name nm.
NodeNamed(t, nm) == CHOOSE n \in t.nodes : ~IsLeaf(t, n) /\ t.label[n] = <<nm>>

\* The table of the single rooting.
FixedRootTable == phylum_rel_dists[1][2]

\* C24: in both single-rooting modes the value of the table for a named
\* clade is the rel_dist decorated on its node, and once the function has
\* returned the edge length between two named clades is the difference of
\* their table values.
C24_TableAndDecorationAgree ==
    (input \in {"fixed_root", "mblet"} /\ pc \in {"rescale", "halted"} /\ pi > 0) =>
        LET t == heap.tree
        IN  /\ \A r \in DOMAIN FixedRootTable : \A nm \in DOMAIN FixedRootTable[r] :
                  t.rel_dist[NodeNamed(t, nm)] = Num(FixedRootTable[r][nm])
            /\ (pc = "halted" /\ exit_status = "returned") =>
                  t.len[NodeNamed(t, ClassX)] =
                     Num(FixedRootTable[2][ClassX] - FixedRootTable[1][PhylumA])

\* Node n of the working copy is a leaf of the outgroup or an internal node
\* with leaves of the outgroup only.
OutgroupOnly(n) ==
    LET t == heap[new_tree]
    IN  /\ n \in t.nodes
        /\ \A x \in LeafSet(t, n) : t.taxon[x] \in outgroup_in_tree

\* C25: the walk that ends a rooting on phylum p adds no observation for a
\* leaf of the outgroup p nor for an internal node whose leaves all belong
\* to the outgroup.
C25_OutgroupIsNeverObserved ==
    [][pc = "rooted" =>
         \A n \in heap.tree.nodes :
             LET k == heap.tree.id[n].v
             IN  Len(rel_node_dists'[k]) > Len(rel_node_dists[k]) => ~OutgroupOnly(n)]_vars

====
